---- MODULE Spec2Model ----
(***************************************************************************)
(* FossFLOW MCP: the immutable diagram state manager (DiagramState.ts) and *)
(* the compact/full format converter (formatConverter.ts).                 *)
(*                                                                         *)
(* Representation.                                                         *)
(*   string            a sequence of character codes (so that slice can be *)
(*                     computed); '' is << >>                              *)
(*   optional value    None (undefined / absent) or Some(v)                *)
(*   identifier        a tuple: <<site, n>> for a uuidv4() value (see Uuid),*)
(*                     <<"item", n>> for `item-${n}`, <<"view", n>> for    *)
(*                     `view-${n}`, <<"connector", v, c>> for              *)
(*                     `connector-${v}-${c}`                               *)
(*   array             a sequence; compact indices stay 0-based; an absent *)
(*                     optional array is the empty sequence                *)
(*   view name         <<"Main View">> or <<"View", n>> for `View ${n}`      *)
(***************************************************************************)
EXTENDS Integers, Sequences, FiniteSets, TLC

VARIABLES
  model,      \* the Model held by the current DiagramState
  last,       \* the last operation applied
  steps,      \* number of operations applied so far
  origin,     \* "empty" while the diagram descends from new DiagramState() by operations only
  primaryOnly,\* TRUE while every operation so far was called without a viewId
  heap,       \* object store of the snapshot specification: address -> object
  snaps,      \* root addresses of the DiagramState instances handed out so far
  held,       \* the Model each of those instances held when it was returned
  input,      \* converter specification: the payload under conversion
  output,     \* converter specification: the conversion's result
  pc          \* converter specification: which conversion produced output

vars == <<model, last, steps, origin, primaryOnly, heap, snaps, held, input, output, pc>>

mainVars == <<model, last, steps, origin, primaryOnly>>
snapVars == <<heap, snaps, held>>
convVars == <<input, output, pc>>

----------------------------------------------------------------------------
(* Bounds of the model *)

\* operations applied to a diagram in one behaviour
MaxSteps == 4
\* DiagramState instances kept in the snapshot specification
MaxSnaps == 3
\* items, and views, of a payload handed to the converter
MaxPayloadItems == 2
MaxPayloadViews == 2
\* operations of one batchOperations request
MaxBatch == 3
\* largest tile coordinate, and connectors, of a diagram handed to renderAscii
MaxTile == 1
MaxConnectors == 2

----------------------------------------------------------------------------
(* Program constants *)

DEFAULT_LABEL_HEIGHT == 80
TITLE_MAX == 40
NAME_MAX == 30
DESCRIPTION_MAX == 100

DEFAULT_COLOR == [id |-> "__DEFAULT__", value |-> "#6366f1"]

----------------------------------------------------------------------------
(* JavaScript values *)

None == << >>
Some(v) == <<v>>
IsDef(o) == o # None
Get(o) == o[1]

\* a || d for an optional string or identifier: undefined and '' are falsy
OrElse(o, d) == IF IsDef(o) /\ Get(o) # << >> THEN Get(o) ELSE d

\* a ?? d
Coalesce(o, d) == IF IsDef(o) THEN Get(o) ELSE d

\* a || d for an optional enum or text value held as a TLA+ string
OrElseStr(o, d) == IF IsDef(o) /\ Get(o) # "" THEN Get(o) ELSE d

\* (s || undefined): '' becomes undefined
Truthy(s) == IF s # << >> THEN Some(s) ELSE None

\* a string of n characters whose first character is tag
Str(tag, n) == [k \in 1..n |-> IF k = 1 THEN tag ELSE k]

\* slice(0, n) cutting one character late
SliceInclusive(s, n) == IF Len(s) <= n + 1 THEN s ELSE SubSeq(s, 1, n + 1)

\* s.slice(0, n)
Slice(s, n) == SubSeq(s, 1, IF Len(s) < n THEN Len(s) ELSE n)

\* s.findIndex(e => e.id === id), 1-based; 0 stands for -1 / not found
FindIndex(s, id) ==
  IF \E k \in 1..Len(s) : s[k].id = id
  THEN CHOOSE k \in 1..Len(s) : s[k].id = id /\ \A j \in 1..(k - 1) : s[j].id # id
  ELSE 0

\* Array.prototype.splice(k, 1), 1-based
Splice(s, k) == SubSeq(s, 1, k - 1) \o SubSeq(s, k + 1, Len(s))

\* s.some(e => e.id === id)
Some_(s, id) == \E k \in 1..Len(s) : s[k].id = id

\* the n-th value uuidv4() returned at one call site; site names the call site
Uuid(site, n) == <<site, n>>

----------------------------------------------------------------------------
(* DiagramState: construction and view resolution *)

createDefaultView(id) ==
  [id |-> id, name |-> <<"Main View">>, items |-> << >>, connectors |-> << >>,
   rectangles |-> << >>, textBoxes |-> << >>]

INITIAL_MODEL ==
  [title |-> Str(85, 8), version |-> Some("1.0"), description |-> None,
   icons |-> << >>, colors |-> <<DEFAULT_COLOR>>, items |-> << >>, views |-> << >>]

\* get primaryView(): the first view
primaryView(m) == m.views[1]

\* getView(viewId): the view of that id, else the primary view
getView(m, viewId) ==
  IF ~(IsDef(viewId) /\ Get(viewId) # << >>) THEN primaryView(m)
  ELSE LET k == FindIndex(m.views, Get(viewId))
       IN  IF k # 0 THEN m.views[k] ELSE primaryView(m)

\* draft.views.find((v) => v.id === (viewId || this.primaryView.id)), as an index (0: none)
TargetView(m, viewId) ==
  LET id == OrElse(viewId, primaryView(m).id)
  IN  FindIndex(m.views, id)

----------------------------------------------------------------------------
(* Format converter *)

HasKey(d, k) == k \in DOMAIN d

CompactMeta == [f |-> "compact", v |-> "1.0"]

\* a CompactDiagram value {t, i, v, _}
Compact(t, i, v) == [t |-> t, i |-> i, v |-> v] @@ ("_" :> CompactMeta)

\* a value that is no object and no array: null, undefined, a number, a string
JsNull == [typeof |-> "null"]
JsUndefined == [typeof |-> "undefined"]
JsNumber == [typeof |-> "number"]
JsString == [typeof |-> "string"]
Primitives == {JsNull, JsUndefined, JsNumber, JsString}

\* value && typeof value === 'object', of a value that is an object or a primitive;
\* the object {} is the function of no key
IsObject(x) == ~HasKey(x, "typeof")

\* Array.isArray(value), of a value that is an array or a primitive
IsArray(x) == ToString(x) \notin {ToString(p) : p \in Primitives}

\* detectFormat with the full test ahead of the compact tests
detectFormatFullFirst(d) ==
  IF ~IsObject(d) THEN "unknown"
  ELSE IF HasKey(d, "title") /\ HasKey(d, "items") /\ HasKey(d, "views") THEN "full"
  ELSE IF HasKey(d, "_") /\ IsObject(d["_"]) /\ HasKey(d["_"], "f") /\ d["_"].f = "compact"
  THEN "compact"
  ELSE IF HasKey(d, "t") /\ HasKey(d, "i") /\ HasKey(d, "v") /\ IsArray(d.i) /\ IsArray(d.v)
  THEN "compact"
  ELSE "unknown"

\* detectFormat(diagram)
detectFormat(d) ==
  IF ~IsObject(d) THEN "unknown"
  ELSE IF HasKey(d, "_") /\ IsObject(d["_"]) /\ HasKey(d["_"], "f") /\ d["_"].f = "compact"
  THEN "compact"
  ELSE IF HasKey(d, "t") /\ HasKey(d, "i") /\ HasKey(d, "v") /\ IsArray(d.i) /\ IsArray(d.v)
  THEN "compact"
  ELSE IF HasKey(d, "title") /\ HasKey(d, "items") /\ HasKey(d, "views") THEN "full"
  ELSE "unknown"

\* connections of the views before the k-th (1-based) of a compact v
RECURSIVE ConnsBefore(_, _)
ConnsBefore(v, k) == IF k <= 1 THEN 0 ELSE ConnsBefore(v, k - 1) + Len(v[k - 1][2])

\* number of uuidv4() calls toFull makes: two anchors per connection
toFullUuids(c) == 2 * ConnsBefore(c.v, Len(c.v) + 1)

\* the outcome of a call that ends in a TypeError (a property read on undefined)
Throws == [error |-> "TypeError"]

\* toFull with both anchors of a connector on the connection's first index
toFullFromFrom(c, u) ==
  IF ~HasKey(c, "_") THEN Throws ELSE
  LET items == [n \in 1..Len(c.i) |->
                  [id |-> <<"item", n - 1>>,
                   name |-> c.i[n][1],
                   icon |-> Truthy(c.i[n][2]),
                   description |-> Truthy(c.i[n][3])]]
      view(k) ==
        LET positions == c.v[k][1]
            connections == c.v[k][2]
            base == u + 2 * ConnsBefore(c.v, k)
        IN  [id |-> <<"view", k - 1>>,
             name |-> IF k - 1 = 0 THEN <<"Main View">> ELSE <<"View", (k - 1) + 1>>,
             items |-> [j \in 1..Len(positions) |->
                          [id |-> <<"item", positions[j][1]>>,
                           tile |-> [x |-> positions[j][2], y |-> positions[j][3]],
                           labelHeight |-> DEFAULT_LABEL_HEIGHT]],
             connectors |-> [j \in 1..Len(connections) |->
                          [id |-> <<"connector", k - 1, j - 1>>,
                           anchors |->
                             <<[id |-> Uuid("anchor", base + 2 * (j - 1)),
                                ref |-> [item |-> <<"item", connections[j][1]>>, anchor |-> "center"]],
                               [id |-> Uuid("anchor", base + 2 * (j - 1) + 1),
                                ref |-> [item |-> <<"item", connections[j][1]>>, anchor |-> "center"]]>>,
                           style |-> "SOLID",
                           lineType |-> "SINGLE",
                           color |-> None,
                           showArrow |-> TRUE,
                           description |-> None]],
             rectangles |-> << >>,
             textBoxes |-> << >>]
  IN  [title |-> c.t,
       version |-> Some(c["_"].v),
       description |-> None,
       items |-> items,
       views |-> [k \in 1..Len(c.v) |-> view(k)],
       icons |-> << >>,
       colors |-> <<DEFAULT_COLOR>>]

\* toFull(compact); u is the number of the first uuidv4() value it draws
toFull(c, u) ==
  IF ~HasKey(c, "_") THEN Throws ELSE
  LET items == [n \in 1..Len(c.i) |->
                  [id |-> <<"item", n - 1>>,
                   name |-> c.i[n][1],
                   icon |-> Truthy(c.i[n][2]),
                   description |-> Truthy(c.i[n][3])]]
      view(k) ==
        LET positions == c.v[k][1]
            connections == c.v[k][2]
            base == u + 2 * ConnsBefore(c.v, k)
        IN  [id |-> <<"view", k - 1>>,
             name |-> IF k - 1 = 0 THEN <<"Main View">> ELSE <<"View", (k - 1) + 1>>,
             items |-> [j \in 1..Len(positions) |->
                          [id |-> <<"item", positions[j][1]>>,
                           tile |-> [x |-> positions[j][2], y |-> positions[j][3]],
                           labelHeight |-> DEFAULT_LABEL_HEIGHT]],
             connectors |-> [j \in 1..Len(connections) |->
                          [id |-> <<"connector", k - 1, j - 1>>,
                           anchors |->
                             <<[id |-> Uuid("anchor", base + 2 * (j - 1)),
                                ref |-> [item |-> <<"item", connections[j][1]>>, anchor |-> "center"]],
                               [id |-> Uuid("anchor", base + 2 * (j - 1) + 1),
                                ref |-> [item |-> <<"item", connections[j][2]>>, anchor |-> "center"]]>>,
                           style |-> "SOLID",
                           lineType |-> "SINGLE",
                           color |-> None,
                           showArrow |-> TRUE,
                           description |-> None]],
             rectangles |-> << >>,
             textBoxes |-> << >>]
  IN  [title |-> c.t,
       version |-> Some(c["_"].v),
       description |-> None,
       items |-> items,
       views |-> [k \in 1..Len(c.v) |-> view(k)],
       icons |-> << >>,
       colors |-> <<DEFAULT_COLOR>>]

\* itemIndexMap.get(id): the 0-based index the map holds for id (the last item of
\* that id, set() overwriting earlier ones), or None
itemIndexMap(full, id) ==
  LET hits == {k \in 1..Len(full.items) : full.items[k].id = id}
  IN  IF hits = {} THEN None
      ELSE Some((CHOOSE k \in hits : \A j \in hits : j <= k) - 1)

\* one connector of toCompact: None for the connectors it drops
toCompactConnection(full, connector) ==
  IF Len(connector.anchors) < 2 THEN None
  ELSE LET fromItemId == connector.anchors[1].ref.item
           toItemId == connector.anchors[Len(connector.anchors)].ref.item
       IN  IF fromItemId = << >> \/ toItemId = << >> THEN None
           ELSE LET fromIndex == itemIndexMap(full, fromItemId)
                    toIndex == itemIndexMap(full, toItemId)
                IN  IF ~IsDef(fromIndex) \/ ~IsDef(toIndex) THEN None
                    ELSE Some(<<Get(fromIndex), Get(toIndex)>>)

\* toCompact keeping only the items some view places
toCompactPlacedOnly(full) ==
  LET placed == SelectSeq(full.items,
                          LAMBDA item : \E k \in 1..Len(full.views) :
                                          Some_(full.views[k].items, item.id))
      kept == [full EXCEPT !.items = placed]
      items == [n \in 1..Len(placed) |->
                  <<Slice(placed[n].name, NAME_MAX),
                    OrElse(placed[n].icon, << >>),
                    Slice(OrElse(placed[n].description, << >>), DESCRIPTION_MAX)>>]
      views == [k \in 1..Len(full.views) |->
                  LET view == full.views[k]
                  IN  <<[j \in 1..Len(view.items) |->
                           <<Coalesce(itemIndexMap(kept, view.items[j].id), 0),
                             view.items[j].tile.x, view.items[j].tile.y>>],
                        << >> >>]
  IN  Compact(Slice(full.title, TITLE_MAX), items,
              IF Len(views) = 0 THEN << << << >>, << >> >> >> ELSE views)

\* toCompact(full)
toCompact(full) ==
  LET items == [n \in 1..Len(full.items) |->
                  <<Slice(full.items[n].name, NAME_MAX),
                    OrElse(full.items[n].icon, << >>),
                    Slice(OrElse(full.items[n].description, << >>), DESCRIPTION_MAX)>>]
      views == [k \in 1..Len(full.views) |->
                  LET view == full.views[k]
                  IN  <<[j \in 1..Len(view.items) |->
                           <<Coalesce(itemIndexMap(full, view.items[j].id), 0),
                             view.items[j].tile.x, view.items[j].tile.y>>],
                        LET mapped == [j \in 1..Len(view.connectors) |->
                                         toCompactConnection(full, view.connectors[j])]
                            kept == SelectSeq(mapped, IsDef)
                        IN  [j \in 1..Len(kept) |-> Get(kept[j])]>>]
  IN  Compact(Slice(full.title, TITLE_MAX),
              items,
              IF Len(views) = 0 THEN << << << >>, << >> >> >> ELSE views)

\* normalize(diagram)
normalize(d, u) == IF detectFormat(d) = "compact" THEN toFull(d, u) ELSE d

\* uuidv4() calls of normalize
normalizeUuids(d) == IF detectFormat(d) = "compact" THEN toFullUuids(d) ELSE 0

\* convertToFormat(diagram, format)
convertToFormat(m, format) == IF format = "compact" THEN toCompact(m) ELSE m

RECURSIVE Flatten(_)
Flatten(ss) == IF ss = << >> THEN << >> ELSE Head(ss) \o Flatten(Tail(ss))

\* typeof value === 'string', of a value that is a string of characters or a primitive
\* that is no string
IsString(x) == ToString(x) \notin {ToString(p) : p \in Primitives}

\* validateCompact(diagram); an error message is the tuple of its parts
validateCompact(d) ==
  LET titleErrors ==
        IF ~(HasKey(d, "t") /\ IsString(d.t)) THEN << <<"Missing or invalid title (t)">> >>
        ELSE IF Len(d.t) > TITLE_MAX THEN << <<"Title (t) exceeds 40 characters">> >>
        ELSE << >>
      itemErrors(index) ==
        LET item == d.i[index + 1]
        IN  IF ~IsArray(item) \/ Len(item) # 3
            THEN << <<"Item", index, "must be an array of 3 elements [name, icon, description]">> >>
            ELSE (IF ~IsString(item[1])
                  THEN << <<"Item", index, "name must be a string">> >>
                  ELSE IF Len(item[1]) > NAME_MAX
                  THEN << <<"Item", index, "name exceeds 30 characters">> >> ELSE << >>)
                 \o (IF ~IsString(item[2])
                     THEN << <<"Item", index, "icon must be a string">> >> ELSE << >>)
                 \o (IF ~IsString(item[3])
                     THEN << <<"Item", index, "description must be a string">> >>
                     ELSE IF Len(item[3]) > DESCRIPTION_MAX
                     THEN << <<"Item", index, "description exceeds 100 characters">> >>
                     ELSE << >>)
      itemsErrors ==
        IF ~(HasKey(d, "i") /\ IsArray(d.i)) THEN << <<"Missing or invalid items array (i)">> >>
        ELSE Flatten([n \in 1..Len(d.i) |-> itemErrors(n - 1)])
      viewErrors(viewIndex) ==
        LET view == d.v[viewIndex + 1]
        IN  IF ~IsArray(view) \/ Len(view) # 2
            THEN << <<"View", viewIndex, "must be an array of 2 elements [positions, connections]">> >>
            ELSE (IF ~IsArray(view[1])
                  THEN << <<"View", viewIndex, "positions must be an array">> >> ELSE << >>)
                 \o (IF ~IsArray(view[2])
                     THEN << <<"View", viewIndex, "connections must be an array">> >> ELSE << >>)
      viewsErrors ==
        IF ~(HasKey(d, "v") /\ IsArray(d.v)) THEN << <<"Missing or invalid views array (v)">> >>
        ELSE Flatten([n \in 1..Len(d.v) |-> viewErrors(n - 1)])
      metaErrors ==
        IF ~(HasKey(d, "_") /\ IsObject(d["_"])) THEN << <<"Missing metadata (_)">> >>
        ELSE (IF ~HasKey(d["_"], "f") \/ d["_"].f # "compact"
              THEN << <<"Metadata format (_.f) must be \"compact\"">> >> ELSE << >>)
             \o (IF ~(HasKey(d["_"], "v") /\ IsString(d["_"].v))
                 THEN << <<"Metadata version (_.v) must be a string">> >> ELSE << >>)
      errors == titleErrors \o itemsErrors \o viewsErrors \o metaErrors
  IN  IF ~IsObject(d) THEN [valid |-> FALSE, errors |-> << <<"Diagram must be an object">> >>]
      ELSE [valid |-> Len(errors) = 0, errors |-> errors]

\* validateFull(diagram)
validateFull(d) ==
  LET missing(k, string) == ~(HasKey(d, k) /\ (IF string THEN IsString(d[k]) ELSE IsArray(d[k])))
      errors ==
           (IF missing("title", TRUE) THEN << <<"Missing or invalid title">> >> ELSE << >>)
        \o (IF missing("items", FALSE) THEN << <<"Missing or invalid items array">> >> ELSE << >>)
        \o (IF missing("views", FALSE) THEN << <<"Missing or invalid views array">> >> ELSE << >>)
        \o (IF missing("icons", FALSE) THEN << <<"Missing or invalid icons array">> >> ELSE << >>)
        \o (IF missing("colors", FALSE) THEN << <<"Missing or invalid colors array">> >> ELSE << >>)
  IN  IF ~IsObject(d) THEN [valid |-> FALSE, errors |-> << <<"Diagram must be an object">> >>]
      ELSE [valid |-> Len(errors) = 0, errors |-> errors]

\* validate without the branch of the unknown format
validateNoUnknown(d) ==
  LET format == detectFormat(d)
      result == IF format = "compact" THEN validateCompact(d) ELSE validateFull(d)
  IN  [valid |-> result.valid, errors |-> result.errors, format |-> format]

\* validate(diagram)
validate(d) ==
  LET format == detectFormat(d)
      result == IF format = "compact" THEN validateCompact(d) ELSE validateFull(d)
  IN  IF format = "unknown"
      THEN [valid |-> FALSE, format |-> "unknown",
            errors |-> << <<"Unable to detect diagram format. Must be either compact or full format.">> >>]
      ELSE [valid |-> result.valid, errors |-> result.errors, format |-> format]

\* new DiagramState(): no payload
NewDiagramState(u) == [INITIAL_MODEL EXCEPT !.views = <<createDefaultView(Uuid("viewid", u))>>]

\* new DiagramState(diagram) without the default view for an empty views list
DiagramStateAsGiven(d, u) == normalize(d, u)

\* new DiagramState(diagram): normalize, then ensure at least one view
DiagramState(d, u) ==
  LET m == normalize(d, u)
  IN  IF Len(m.views) = 0
      THEN [m EXCEPT !.views = <<createDefaultView(Uuid("viewid", 0))>>]
      ELSE m

----------------------------------------------------------------------------
(* DiagramState: the mutation operations.  Each is the whole method: the   *)
(* produce(this.model, recipe) result wrapped by new DiagramState(...).    *)
(* u holds the numbers of the uuidv4() values the call draws (FreshUuids).  *)

\* addNode putting the new ModelItem ahead of the existing ones
addNodeUnshift(m, p, u) ==
  LET nodeId == Uuid("node", u.node)
      vk == TargetView(m, p.viewId)
      modelItem == [id |-> nodeId, name |-> p.name, icon |-> p.icon,
                    description |-> p.description]
      viewItem == [id |-> nodeId, tile |-> [x |-> p.x, y |-> p.y],
                   labelHeight |-> Coalesce(p.labelHeight, DEFAULT_LABEL_HEIGHT)]
      newModel == [m EXCEPT !.items = <<modelItem>> \o @,
                            !.views = IF vk # 0
                                      THEN [@ EXCEPT ![vk].items = Append(@, viewItem)]
                                      ELSE @]
  IN  DiagramState(newModel, u.view)

\* addNode(params)
addNode(m, p, u) ==
  LET nodeId == Uuid("node", u.node)
      vk == TargetView(m, p.viewId)
      modelItem == [id |-> nodeId, name |-> p.name, icon |-> p.icon,
                    description |-> p.description]
      viewItem == [id |-> nodeId, tile |-> [x |-> p.x, y |-> p.y],
                   labelHeight |-> Coalesce(p.labelHeight, DEFAULT_LABEL_HEIGHT)]
      newModel == [m EXCEPT !.items = Append(@, modelItem),
                            !.views = IF vk # 0
                                      THEN [@ EXCEPT ![vk].items = Append(@, viewItem)]
                                      ELSE @]
  IN  DiagramState(newModel, u.view)

\* updateNode assigning every ModelItem field, supplied or not
updateNodeAssigningAll(m, p, u) ==
  LET ik == FindIndex(m.items, p.nodeId)
  IN  IF ik = 0 THEN m
      ELSE [m EXCEPT !.items[ik] =
              [@ EXCEPT !.name = Coalesce(p.name, @),
                        !.icon = p.icon,
                        !.description = p.description]]

\* updateNode(params)
updateNode(m, p, u) ==
  LET vk == TargetView(m, p.viewId)
      ik == FindIndex(m.items, p.nodeId)
      items == IF ik # 0
               THEN [m.items EXCEPT ![ik] =
                       [@ EXCEPT !.name = Coalesce(p.name, @),
                                 !.icon = IF IsDef(p.icon) THEN p.icon ELSE @,
                                 !.description = IF IsDef(p.description) THEN p.description ELSE @]]
               ELSE m.items
      wk == IF vk # 0 THEN FindIndex(m.views[vk].items, p.nodeId) ELSE 0
      views == IF wk # 0
               THEN [m.views EXCEPT ![vk].items[wk] =
                       [@ EXCEPT !.tile = [x |-> Coalesce(p.x, @.x), y |-> Coalesce(p.y, @.y)],
                                 !.labelHeight = Coalesce(p.labelHeight, @)]]
               ELSE m.views
      newModel == [m EXCEPT !.items = items, !.views = views]
  IN  DiagramState(newModel, u.view)

\* does the connector have an anchor on nodeId
References(connector, nodeId) ==
  \E k \in 1..Len(connector.anchors) : connector.anchors[k].ref.item = nodeId

\* removeNode without the pruning of the view's connectors
removeNodeKeepingConnectors(m, nodeId, viewId, u) ==
  LET vk == TargetView(m, viewId)
      itemIndex == FindIndex(m.items, nodeId)
      viewItemIndex == IF vk # 0 THEN FindIndex(m.views[vk].items, nodeId) ELSE 0
  IN  [m EXCEPT !.items = IF itemIndex # 0 THEN Splice(@, itemIndex) ELSE @,
                !.views = IF viewItemIndex # 0
                          THEN [@ EXCEPT ![vk].items = Splice(@, viewItemIndex)]
                          ELSE @]

\* removeNode(nodeId, viewId)
removeNode(m, nodeId, viewId, u) ==
  LET vk == TargetView(m, viewId)
      itemIndex == FindIndex(m.items, nodeId)
      items == IF itemIndex # 0 THEN Splice(m.items, itemIndex) ELSE m.items
      pruned(view) ==
        LET viewItemIndex == FindIndex(view.items, nodeId)
        IN  [view EXCEPT
               !.items = IF viewItemIndex # 0 THEN Splice(@, viewItemIndex) ELSE @,
               !.connectors = SelectSeq(@, LAMBDA connector : ~References(connector, nodeId))]
      newModel == [m EXCEPT !.items = items,
                            !.views = IF vk # 0 THEN [@ EXCEPT ![vk] = pruned(@)] ELSE @]
  IN  DiagramState(newModel, u.view)

\* addConnector without the check that both endpoints are placed in the view
addConnectorUnchecked(m, p, u) ==
  LET vk == TargetView(m, p.viewId)
      connector == [id |-> Uuid("connector-id", u.connector),
                    anchors |->
                      <<[id |-> Uuid("anchor", 2 * u.connector - 1),
                         ref |-> [item |-> p.fromNodeId, anchor |-> "center"]],
                        [id |-> Uuid("anchor", 2 * u.connector),
                         ref |-> [item |-> p.toNodeId, anchor |-> "center"]]>>,
                    style |-> OrElseStr(p.style, "SOLID"),
                    lineType |-> OrElseStr(p.lineType, "SINGLE"),
                    color |-> p.color,
                    showArrow |-> Coalesce(p.showArrow, TRUE),
                    description |-> p.label]
  IN  IF vk = 0 THEN m ELSE [m EXCEPT !.views[vk].connectors = Append(@, connector)]

\* addConnector(params)
addConnector(m, p, u) ==
  LET vk == TargetView(m, p.viewId)
      fromExists == vk # 0 /\ Some_(m.views[vk].items, p.fromNodeId)
      toExists == vk # 0 /\ Some_(m.views[vk].items, p.toNodeId)
      anchors == <<[id |-> Uuid("anchor", 2 * u.connector - 1), ref |-> [item |-> p.fromNodeId, anchor |-> "center"]],
                   [id |-> Uuid("anchor", 2 * u.connector), ref |-> [item |-> p.toNodeId, anchor |-> "center"]]>>
      connector == [id |-> Uuid("connector-id", u.connector),
                    anchors |-> anchors,
                    style |-> OrElseStr(p.style, "SOLID"),
                    lineType |-> OrElseStr(p.lineType, "SINGLE"),
                    color |-> p.color,
                    showArrow |-> Coalesce(p.showArrow, TRUE),
                    description |-> p.label]
      newModel == IF vk = 0 \/ ~fromExists \/ ~toExists THEN m
                  ELSE [m EXCEPT !.views[vk].connectors = Append(@, connector)]
  IN  DiagramState(newModel, u.view)

\* updateConnector(params)
updateConnector(m, p, u) ==
  LET vk == TargetView(m, p.viewId)
      ck == IF vk # 0
            THEN FindIndex(m.views[vk].connectors, p.connectorId)
            ELSE 0
      newModel == IF ck = 0 THEN m
                  ELSE [m EXCEPT !.views[vk].connectors[ck] =
                          [@ EXCEPT !.style = Coalesce(p.style, @),
                                    !.lineType = Coalesce(p.lineType, @),
                                    !.color = IF IsDef(p.color) THEN p.color ELSE @,
                                    !.showArrow = Coalesce(p.showArrow, @),
                                    !.description = IF IsDef(p.label) THEN p.label ELSE @]]
  IN  DiagramState(newModel, u.view)

\* removeConnector taking the primary view when no view has the viewId, as getView does
removeConnectorViewFallback(m, connectorId, viewId, u) ==
  LET vk == IF TargetView(m, viewId) # 0 THEN TargetView(m, viewId) ELSE 1
      index == FindIndex(m.views[vk].connectors, connectorId)
      newModel == IF index = 0 THEN m
                  ELSE [m EXCEPT !.views[vk].connectors = Splice(@, index)]
  IN  DiagramState(newModel, u.view)

\* removeConnector(connectorId, viewId)
removeConnector(m, connectorId, viewId, u) ==
  LET vk == TargetView(m, viewId)
      index == IF vk # 0
               THEN FindIndex(m.views[vk].connectors, connectorId)
               ELSE 0
      newModel == IF index = 0 THEN m
                  ELSE [m EXCEPT !.views[vk].connectors = Splice(@, index)]
  IN  DiagramState(newModel, u.view)

\* addRectangle(params)
addRectangle(m, p, u) ==
  LET vk == TargetView(m, p.viewId)
      rectangle == [id |-> Uuid("rectangle", u.rectangle),
                    from |-> [x |-> p.fromX, y |-> p.fromY],
                    to |-> [x |-> p.toX, y |-> p.toY],
                    color |-> p.color]
      newModel == IF vk = 0 THEN m
                  ELSE [m EXCEPT !.views[vk].rectangles = Append(@, rectangle)]
  IN  DiagramState(newModel, u.view)

\* removeRectangle(rectangleId, viewId)
removeRectangle(m, rectangleId, viewId, u) ==
  LET vk == TargetView(m, viewId)
      index == IF vk # 0
               THEN FindIndex(m.views[vk].rectangles, rectangleId)
               ELSE 0
      newModel == IF index = 0 THEN m
                  ELSE [m EXCEPT !.views[vk].rectangles = Splice(@, index)]
  IN  DiagramState(newModel, u.view)

\* addTextBox(params)
addTextBox(m, p, u) ==
  LET vk == TargetView(m, p.viewId)
      textBox == [id |-> Uuid("textbox", u.textBox),
                  tile |-> [x |-> p.x, y |-> p.y],
                  content |-> p.content,
                  orientation |-> OrElseStr(p.orientation, "X"),
                  fontSize |-> p.fontSize]
      newModel == IF vk = 0 THEN m
                  ELSE [m EXCEPT !.views[vk].textBoxes = Append(@, textBox)]
  IN  DiagramState(newModel, u.view)

\* removeTextBox(textBoxId, viewId)
removeTextBox(m, textBoxId, viewId, u) ==
  LET vk == TargetView(m, viewId)
      index == IF vk # 0
               THEN FindIndex(m.views[vk].textBoxes, textBoxId)
               ELSE 0
      newModel == IF index = 0 THEN m
                  ELSE [m EXCEPT !.views[vk].textBoxes = Splice(@, index)]
  IN  DiagramState(newModel, u.view)

\* setTitle(title)
setTitle(m, title, u) == DiagramState([m EXCEPT !.title = title], u.view)

\* setDescription(description)
setDescription(m, description, u) ==
  DiagramState([m EXCEPT !.description = Some(description)], u.view)

----------------------------------------------------------------------------
(* Inputs *)

\* an identifier no object of any diagram has
UnknownId == <<"none", 0>>

NameA == Str(65, 2)
NameB == Str(66, 3)
IconI == Str(105, 2)
DescD == Str(100, 4)
TitleT == Str(84, 4)

\* the viewId arguments: absent, each existing view, a view that does not exist
ViewArgs(m) == {None} \cup {Some(m.views[k].id) : k \in 1..Len(m.views)} \cup {Some(UnknownId)}

\* identifiers a caller may pass as a node: of every item, of every placement, unknown
NodeIds(m) ==
  {m.items[k].id : k \in 1..Len(m.items)}
    \cup UNION {{m.views[v].items[k].id : k \in 1..Len(m.views[v].items)} : v \in 1..Len(m.views)}
    \cup {UnknownId}

ConnectorIds(m) ==
  UNION {{m.views[v].connectors[k].id : k \in 1..Len(m.views[v].connectors)} : v \in 1..Len(m.views)}
    \cup {UnknownId}

RectangleIds(m) ==
  UNION {{m.views[v].rectangles[k].id : k \in 1..Len(m.views[v].rectangles)} : v \in 1..Len(m.views)}
    \cup {UnknownId}

TextBoxIds(m) ==
  UNION {{m.views[v].textBoxes[k].id : k \in 1..Len(m.views[v].textBoxes)} : v \in 1..Len(m.views)}
    \cup {UnknownId}

AddNodeInputs(m) ==
  {[name |-> NameA, icon |-> None, description |-> None, x |-> 0, y |-> 0,
    labelHeight |-> None, viewId |-> v] : v \in ViewArgs(m)}
  \cup
  {[name |-> NameB, icon |-> Some(IconI), description |-> Some(DescD), x |-> 1, y |-> 1,
    labelHeight |-> Some(40), viewId |-> v] : v \in ViewArgs(m)}

NodePatches ==
  {[name |-> Some(NameB), icon |-> None, description |-> None,
    x |-> Some(1), y |-> None, labelHeight |-> None],
   [name |-> None, icon |-> Some(IconI), description |-> Some(DescD),
    x |-> None, y |-> Some(1), labelHeight |-> Some(40)],
   [name |-> None, icon |-> None, description |-> None,
    x |-> None, y |-> None, labelHeight |-> None]}

UpdateNodeInputs(m) ==
  {[nodeId |-> n, viewId |-> v] @@ q : n \in NodeIds(m), v \in ViewArgs(m), q \in NodePatches}

RemoveNodeInputs(m) == {[nodeId |-> n, viewId |-> v] : n \in NodeIds(m), v \in ViewArgs(m)}

DefaultLook ==
  [style |-> None, lineType |-> None, color |-> None, showArrow |-> None, label |-> None]

GivenLook ==
  [style |-> Some("DASHED"), lineType |-> Some("DOUBLE"), color |-> Some("red"),
   showArrow |-> Some(FALSE), label |-> Some("calls")]

AddConnectorInputs(m) ==
  {[fromNodeId |-> a, toNodeId |-> b, viewId |-> v] @@ DefaultLook :
     a \in NodeIds(m), b \in NodeIds(m), v \in ViewArgs(m)}
  \cup
  {[fromNodeId |-> a, toNodeId |-> b, viewId |-> None] @@ GivenLook :
     a \in NodeIds(m), b \in NodeIds(m)}

ConnectorPatches ==
  {[style |-> Some("DASHED"), lineType |-> None, color |-> None,
    showArrow |-> Some(FALSE), label |-> None],
   [style |-> None, lineType |-> Some("DOUBLE"), color |-> Some("red"),
    showArrow |-> None, label |-> Some("calls")],
   [style |-> None, lineType |-> None, color |-> None, showArrow |-> None, label |-> None]}

UpdateConnectorInputs(m) ==
  {[connectorId |-> c, viewId |-> v] @@ q :
     c \in ConnectorIds(m), v \in ViewArgs(m), q \in ConnectorPatches}

RemoveConnectorInputs(m) ==
  {[connectorId |-> c, viewId |-> v] : c \in ConnectorIds(m), v \in ViewArgs(m)}

AddRectangleInputs(m) ==
  {[fromX |-> 1, fromY |-> 1, toX |-> 0, toY |-> 0, color |-> None, viewId |-> v] :
     v \in ViewArgs(m)}

RemoveRectangleInputs(m) ==
  {[rectangleId |-> r, viewId |-> v] : r \in RectangleIds(m), v \in ViewArgs(m)}

AddTextBoxInputs(m) ==
  {[x |-> 0, y |-> 1, content |-> "note", orientation |-> None, fontSize |-> None,
    viewId |-> v] : v \in ViewArgs(m)}

RemoveTextBoxInputs(m) ==
  {[textBoxId |-> t, viewId |-> v] : t \in TextBoxIds(m), v \in ViewArgs(m)}

\* The calls the specification takes from a state: fewer than the inputs above,
\* which the properties range over at every reachable state.
ItemIds(m) == {m.items[k].id : k \in 1..Len(m.items)}

\* the viewId arguments taken: absent, a view other than the primary, no view
ViewCalls(m) ==
  {None, Some(UnknownId)} \cup {Some(m.views[k].id) : k \in 2..Len(m.views)}

AddNodeCalls(m) ==
  {p \in AddNodeInputs(m) : p.viewId \in ViewCalls(m) /\ p.name = NameA}

UpdateNodeCalls(m) ==
  {p \in UpdateNodeInputs(m) : IsDef(p.name) /\ p.viewId = None /\ m.items # << >> /\ p.nodeId = m.items[1].id}

RemoveNodeCalls(m) ==
  {p \in RemoveNodeInputs(m) :
     /\ p.viewId \in ViewCalls(m)
     /\ p.nodeId # UnknownId
     /\ p.viewId = Some(UnknownId) => (m.items # << >> /\ p.nodeId = m.items[1].id)}

AddConnectorCalls(m) ==
  {p \in AddConnectorInputs(m) :
     /\ ~IsDef(p.style)
     /\ p.viewId \in ViewCalls(m) \ {Some(UnknownId)}
     /\ \E i \in 1..Len(m.items) : \E j \in i..Len(m.items) :
          p.fromNodeId = m.items[i].id /\ p.toNodeId = m.items[j].id}

UpdateConnectorCalls(m) ==
  {p \in UpdateConnectorInputs(m) :
     IsDef(p.style) /\ p.viewId = None /\ p.connectorId # UnknownId}

RemoveConnectorCalls(m) ==
  {p \in RemoveConnectorInputs(m) : p.viewId = None /\ p.connectorId # UnknownId}

\* a compact payload and a full payload of no view
CompactNoViews == Compact(TitleT, << <<NameA, << >>, << >> >> >>, << >>)
FullNoViews == [INITIAL_MODEL EXCEPT !.title = NameA]

\* compact payloads a diagram is loaded from: two views that both place both items;
\* one item placed twice in a view; a placement and a connection on an index that
\* is no item's; no view at all
LoadPayloads ==
  LET A == <<NameA, << >>, << >> >>
      B == <<NameB, IconI, DescD>>
  IN  {Compact(TitleT, <<A, B>>,
               << << << <<0, 0, 0>>, <<1, 1, 0>> >>, << <<0, 1>> >> >>,
                  << << <<0, 0, 0>>, <<1, 0, 1>> >>, << <<1, 0>> >> >> >>),
       Compact(TitleT, <<A>>,
               << << << <<0, 0, 0>>, <<0, 1, 1>> >>, << >> >> >>),
       Compact(TitleT, <<A>>,
               << << << <<0, 0, 0>>, <<1, 1, 0>> >>, << <<0, 1>> >> >> >>),
       CompactNoViews}

\* uuidv4() is modelled by its one property, freshness: a call returns a value no
\* object of the diagram at hand carries.  A value is named by the call site that
\* drew it and a number: construction draws numbers below 1, an operation the
\* smallest positive number its receiver does not hold for that site (an anchor's
\* follows from its connector's).
SiteNumbers(ids, site) == {id[2] : id \in {i \in ids : i # << >> /\ i[1] = site}}

\* identifiers in use where a node's may appear: items, placements, anchor references
NodeIdsHeld(m) ==
  {m.items[k].id : k \in 1..Len(m.items)}
    \cup UNION {{m.views[v].items[k].id : k \in 1..Len(m.views[v].items)} : v \in 1..Len(m.views)}
    \cup UNION {UNION {{m.views[v].connectors[k].anchors[a].ref.item :
                          a \in 1..Len(m.views[v].connectors[k].anchors)} :
                        k \in 1..Len(m.views[v].connectors)} : v \in 1..Len(m.views)}

\* numbers n whose connector identifier or anchor identifiers (2n-1, 2n) are in use
ConnectorNumbersHeld(m) ==
  UNION {UNION {SiteNumbers({m.views[v].connectors[k].id}, "connector-id")
                  \cup {(n + 1) \div 2 :
                         n \in {x \in SiteNumbers({m.views[v].connectors[k].anchors[a].id :
                                                    a \in 1..Len(m.views[v].connectors[k].anchors)},
                                                  "anchor") : x >= 1}} :
                k \in 1..Len(m.views[v].connectors)} : v \in 1..Len(m.views)}

\* the least n >= 1 that is not in the set ns of numbers
LeastFree(ns) ==
  CHOOSE n \in 1..(Cardinality(ns) + 1) : n \notin ns /\ \A k \in 1..(n - 1) : k \in ns

\* the numbers of the uuidv4() values a call on receiver m draws
FreshUuids(m) ==
  [node |-> LeastFree(SiteNumbers(NodeIdsHeld(m), "node")),
   connector |-> LeastFree(ConnectorNumbersHeld(m)),
   rectangle |-> LeastFree(SiteNumbers(UNION {{m.views[v].rectangles[k].id :
                                                 k \in 1..Len(m.views[v].rectangles)} :
                                               v \in 1..Len(m.views)}, "rectangle")),
   textBox |-> LeastFree(SiteNumbers(UNION {{m.views[v].textBoxes[k].id :
                                               k \in 1..Len(m.views[v].textBoxes)} :
                                             v \in 1..Len(m.views)}, "textbox")),
   view |-> LeastFree(SiteNumbers({m.views[v].id : v \in 1..Len(m.views)}, "viewid"))]

\* loadDiagram(diagram)
loadDiagram(d) == DiagramState(d, 0 - normalizeUuids(d))

\* createEmptyDiagram(title?)
createEmptyDiagram(title) ==
  LET state == NewDiagramState(0)
  IN  IF IsDef(title) /\ Get(title) # << >>
      THEN setTitle(state, Get(title), [view |-> 0])
      ELSE state

\* getInfo reading the three counts from the last view
getInfoLastView(m) ==
  LET view == m.views[Len(m.views)]
  IN  [title |-> m.title,
       description |-> m.description,
       nodeCount |-> Len(m.items),
       connectorCount |-> Len(view.connectors),
       rectangleCount |-> Len(view.rectangles),
       textBoxCount |-> Len(view.textBoxes),
       viewCount |-> Len(m.views)]

\* getInfo()
getInfo(m) ==
  LET view == primaryView(m)
  IN  [title |-> m.title,
       description |-> m.description,
       nodeCount |-> Len(m.items),
       connectorCount |-> Len(view.connectors),
       rectangleCount |-> Len(view.rectangles),
       textBoxCount |-> Len(view.textBoxes),
       viewCount |-> Len(m.views)]

----------------------------------------------------------------------------
(* Specification of one caller editing a diagram through DiagramState *)

MainIdle == /\ heap = << >> /\ snaps = << >> /\ held = << >>
            /\ input = None /\ output = None /\ pc = "idle"

Init ==
  /\ \/ model = createEmptyDiagram(None) /\ origin = "empty"
     \/ \E d \in LoadPayloads : model = loadDiagram(d) /\ origin = "loaded"
  /\ last = [op |-> "init"]
  /\ steps = 0
  /\ primaryOnly = TRUE
  /\ MainIdle

\* the call op(p) on the current state returned m2
Step(op, p, m2) ==
  /\ steps < MaxSteps
  /\ steps' = steps + 1
  /\ model' = m2
  /\ last' = [op |-> op]
  /\ origin' = origin
  /\ primaryOnly' = (primaryOnly /\ ~IsDef(p.viewId))
  /\ UNCHANGED <<snapVars, convVars>>

AddNode ==
  \E p \in AddNodeCalls(model) : Step("addNode", p, addNode(model, p, FreshUuids(model)))

UpdateNode ==
  \E p \in UpdateNodeCalls(model) :
    Step("updateNode", p, updateNode(model, p, FreshUuids(model)))

RemoveNode ==
  \E p \in RemoveNodeCalls(model) :
    Step("removeNode", p, removeNode(model, p.nodeId, p.viewId, FreshUuids(model)))

AddConnector ==
  \E p \in AddConnectorCalls(model) :
    Step("addConnector", p, addConnector(model, p, FreshUuids(model)))

UpdateConnector ==
  \E p \in UpdateConnectorCalls(model) :
    Step("updateConnector", p, updateConnector(model, p, FreshUuids(model)))

RemoveConnector ==
  \E p \in RemoveConnectorCalls(model) :
    Step("removeConnector", p, removeConnector(model, p.connectorId, p.viewId, FreshUuids(model)))

Next ==
  \/ AddNode
  \/ UpdateNode
  \/ RemoveNode
  \/ AddConnector
  \/ UpdateConnector
  \/ RemoveConnector

Spec == Init /\ [][Next]_vars

----------------------------------------------------------------------------
(* Snapshots.  A DiagramState instance holds a reference to its Model; the   *)
(* Models of different instances share the objects that produce() did not    *)
(* have to copy.  The store below keeps the objects at the grain of that     *)
(* sharing: the Model object, its items array, its views array, each View.   *)

\* the Model a root address stands for
Deref(h, root) ==
  LET views == h[h[root].views].elems
  IN  [title |-> h[root].title,
       version |-> h[root].version,
       description |-> h[root].description,
       icons |-> h[root].icons,
       colors |-> h[root].colors,
       items |-> h[h[root].items].elems,
       views |-> [k \in 1..Len(views) |-> h[views[k]].value]]

ModelObject(m, itemsAddr, viewsAddr) ==
  [kind |-> "model", title |-> m.title, version |-> m.version,
   description |-> m.description, icons |-> m.icons, colors |-> m.colors,
   items |-> itemsAddr, views |-> viewsAddr]

\* a Model built by the constructor: all its objects are new
Construct(h, m) ==
  LET n == Len(h)
      nv == Len(m.views)
      objects == [k \in 1..nv |-> [kind |-> "view", value |-> m.views[k]]]
                   \o <<[kind |-> "array", elems |-> [k \in 1..nv |-> n + k]],
                        [kind |-> "array", elems |-> m.items],
                        ModelObject(m, n + nv + 2, n + nv + 1)>>
  IN  [heap |-> h \o objects, root |-> n + nv + 3]

\* produce() writing the recipe's result m2 into the base's own objects
produceInPlace(h, base, m2) ==
  LET itemsAddr == h[base].items
      views == h[h[base].views].elems
  IN  [heap |-> [a \in 1..Len(h) |->
                   IF a = base THEN ModelObject(m2, itemsAddr, h[base].views)
                   ELSE IF a = itemsAddr THEN [kind |-> "array", elems |-> m2.items]
                   ELSE IF \E k \in 1..Len(views) : views[k] = a
                        THEN [kind |-> "view",
                              value |-> m2.views[CHOOSE k \in 1..Len(views) : views[k] = a]]
                        ELSE h[a]],
       root |-> base]

\* produce(base, recipe), m2 being the value the recipe leaves in the draft: the
\* objects the recipe changed, and those on the path to them, are copied; all
\* others are shared with the base, which is never written; a recipe that
\* changed nothing returns the base itself
produce(h, base, m2) ==
  LET m == Deref(h, base)
      n == Len(h)
      oldViews == h[h[base].views].elems
      changed == {k \in 1..Len(oldViews) : m2.views[k] # m.views[k]}
      rank(k) == Cardinality({j \in changed : j <= k})
      nc == Cardinality(changed)
      viewObjects == [i \in 1..nc |->
                        [kind |-> "view",
                         value |-> m2.views[CHOOSE k \in changed : rank(k) = i]]]
      viewsArray == [k \in 1..Len(oldViews) |->
                       IF k \in changed THEN n + rank(k) ELSE oldViews[k]]
      h1 == h \o viewObjects
              \o (IF nc > 0 THEN <<[kind |-> "array", elems |-> viewsArray]>> ELSE << >>)
      viewsAddr == IF nc > 0 THEN Len(h1) ELSE h[base].views
      itemsChanged == m2.items # m.items
      h2 == h1 \o (IF itemsChanged THEN <<[kind |-> "array", elems |-> m2.items]>> ELSE << >>)
      itemsAddr == IF itemsChanged THEN Len(h2) ELSE h[base].items
  IN  IF m2 = m THEN [heap |-> h, root |-> base]
      ELSE [heap |-> Append(h2, ModelObject(m2, itemsAddr, viewsAddr)), root |-> Len(h2) + 1]

\* the uuidv4() values of a call on the store h: new for every instance
SnapUuids(h) ==
  LET n == Len(h) + 1
  IN  [node |-> n, connector |-> n, rectangle |-> n, textBox |-> n, view |-> n]

SnapIdle == /\ model = None /\ steps = 0 /\ origin = "snapshots" /\ primaryOnly = TRUE
            /\ input = None /\ output = None /\ pc = "idle"

SnapInit ==
  /\ \E m \in {createEmptyDiagram(None), createEmptyDiagram(Some(TitleT))}
                \cup {loadDiagram(d) : d \in LoadPayloads} \cup {loadDiagram(FullNoViews)} :
       LET c == Construct(<< >>, m)
       IN  heap = c.heap /\ snaps = <<c.root>> /\ held = <<m>>
  /\ last = [op |-> "init"]
  /\ SnapIdle

\* snapshot k's operation op produced m2: a new instance holds produce()'s result
Return(op, k, m2) ==
  LET r == produce(heap, snaps[k], m2)
  IN  /\ heap' = r.heap
      /\ snaps' = Append(snaps, r.root)
      /\ held' = Append(held, Deref(r.heap, r.root))
      /\ last' = [op |-> op]
      /\ output' = None
      /\ pc' = "idle"
      /\ UNCHANGED <<model, steps, origin, primaryOnly, input>>

\* the instances an operation may be called on, with the Model each holds
Callable == IF Len(snaps) < MaxSnaps THEN 1..Len(snaps) ELSE {}

Held(k) == Deref(heap, snaps[k])

SnapAddNode ==
  \E k \in Callable : \E p \in AddNodeCalls(Held(k)) :
    Return("addNode", k, addNode(Held(k), p, SnapUuids(heap)))

SnapUpdateNode ==
  \E k \in Callable : \E p \in UpdateNodeCalls(Held(k)) :
    Return("updateNode", k, updateNode(Held(k), p, SnapUuids(heap)))

SnapRemoveNode ==
  \E k \in Callable : \E p \in RemoveNodeCalls(Held(k)) :
    Return("removeNode", k, removeNode(Held(k), p.nodeId, p.viewId, SnapUuids(heap)))

SnapAddConnector ==
  \E k \in Callable : \E p \in AddConnectorCalls(Held(k)) :
    Return("addConnector", k, addConnector(Held(k), p, SnapUuids(heap)))

SnapUpdateConnector ==
  \E k \in Callable : \E p \in UpdateConnectorCalls(Held(k)) :
    Return("updateConnector", k, updateConnector(Held(k), p, SnapUuids(heap)))

SnapRemoveConnector ==
  \E k \in Callable : \E p \in RemoveConnectorCalls(Held(k)) :
    Return("removeConnector", k,
           removeConnector(Held(k), p.connectorId, p.viewId, SnapUuids(heap)))

SnapAddRectangle ==
  \E k \in Callable : \E p \in AddRectangleInputs(Held(k)) :
    Return("addRectangle", k, addRectangle(Held(k), p, SnapUuids(heap)))

SnapRemoveRectangle ==
  \E k \in Callable : \E p \in RemoveRectangleInputs(Held(k)) :
    Return("removeRectangle", k,
           removeRectangle(Held(k), p.rectangleId, p.viewId, SnapUuids(heap)))

SnapAddTextBox ==
  \E k \in Callable : \E p \in AddTextBoxInputs(Held(k)) :
    Return("addTextBox", k, addTextBox(Held(k), p, SnapUuids(heap)))

SnapRemoveTextBox ==
  \E k \in Callable : \E p \in RemoveTextBoxInputs(Held(k)) :
    Return("removeTextBox", k,
           removeTextBox(Held(k), p.textBoxId, p.viewId, SnapUuids(heap)))

SnapSetTitle ==
  \E k \in Callable : Return("setTitle", k, setTitle(Held(k), TitleT, SnapUuids(heap)))

SnapSetDescription ==
  \E k \in Callable :
    Return("setDescription", k, setDescription(Held(k), DescD, SnapUuids(heap)))

\* getInfo() of any instance; the instances stay as they are
SnapGetInfo ==
  \E k \in 1..Len(snaps) :
    /\ output' = getInfo(Held(k))
    /\ pc' = "getInfo"
    /\ last' = [op |-> "getInfo", k |-> k]
    /\ UNCHANGED <<model, steps, origin, primaryOnly, snapVars, input>>

SnapNext ==
  \/ SnapGetInfo
  \/ SnapAddNode
  \/ SnapUpdateNode
  \/ SnapRemoveNode
  \/ SnapAddConnector
  \/ SnapUpdateConnector
  \/ SnapRemoveConnector
  \/ SnapAddRectangle
  \/ SnapRemoveRectangle
  \/ SnapAddTextBox
  \/ SnapRemoveTextBox
  \/ SnapSetTitle
  \/ SnapSetDescription

SpecSnap == SnapInit /\ [][SnapNext]_vars

----------------------------------------------------------------------------
(* The format converter applied to payloads *)

SeqsUpTo(S, n) == UNION {[1..k -> S] : k \in 0..n}

\* compact payloads: valid or not, with item indices inside and outside of i
CompactItems ==
  {<<NameA, << >>, << >> >>,
   <<NameB, IconI, DescD>>,
   <<Str(76, NAME_MAX + 1), << >>, Str(100, DESCRIPTION_MAX + 1)>>}

CompactViews ==
  {<< << >>, << >> >>,
   << << <<0, 0, 0>> >>, << >> >>,
   << << <<0, 0, 0>>, <<1, 1, 0>> >>, << <<0, 1>> >> >>,
   << << <<0, 0, 0>>, <<1, 1, 0>> >>, << <<1, 0>>, <<0, 0>> >> >>,
   << << <<0, 0, 0>>, <<0, 1, 1>> >>, << >> >>,
   << << <<0, 0, 0>>, <<2, 1, 0>> >>, << <<0, 2>> >> >>}

CompactInputs ==
  LET bare == {[t |-> t, i |-> i, v |-> v] :
                 t \in {TitleT, Str(84, TITLE_MAX), Str(84, TITLE_MAX + 1)},
                 i \in SeqsUpTo(CompactItems, MaxPayloadItems),
                 v \in SeqsUpTo(CompactViews, MaxPayloadViews)}
  IN  bare \cup {c @@ ("_" :> CompactMeta) : c \in bare}

\* full Models: items of one id twice, names over the compact limit, placements of no
\* item, connectors of one and of three anchors, given looks, rectangles, text boxes
FullItems ==
  {[id |-> <<"n", 1>>, name |-> NameA, icon |-> None, description |-> None],
   [id |-> <<"n", 2>>, name |-> NameB, icon |-> Some(IconI), description |-> Some(DescD)],
   [id |-> <<"n", 3>>, name |-> Str(76, NAME_MAX + 1), icon |-> None,
    description |-> Some(Str(100, DESCRIPTION_MAX + 1))]}

FullAnchor(n, item) == [id |-> <<"a", n>>, ref |-> [item |-> item, anchor |-> "center"]]

FullViews ==
  LET at(n, x, y) == [id |-> <<"n", n>>, tile |-> [x |-> x, y |-> y],
                      labelHeight |-> DEFAULT_LABEL_HEIGHT]
      plain(n, anchors) == [id |-> <<"c", n>>, anchors |-> anchors, style |-> "SOLID",
                            lineType |-> "SINGLE", color |-> None, showArrow |-> TRUE,
                            description |-> None]
  IN  {[id |-> <<"v", 1>>, name |-> <<"Main View">>,
        items |-> <<at(1, 0, 0), at(2, 1, 0)>>,
        connectors |-> <<plain(1, <<FullAnchor(1, <<"n", 1>>), FullAnchor(2, <<"n", 2>>)>>)>>,
        rectangles |-> << >>, textBoxes |-> << >>],
       [id |-> <<"v", 2>>, name |-> <<"View", 2>>,
        items |-> <<at(1, 1, 1)>>,
        connectors |-> <<[id |-> <<"c", 2>>,
                          anchors |-> <<FullAnchor(3, <<"n", 1>>), FullAnchor(4, <<"n", 1>>)>>,
                          style |-> "DASHED", lineType |-> "DOUBLE", color |-> Some("red"),
                          showArrow |-> FALSE, description |-> Some("calls")]>>,
        rectangles |-> <<[id |-> <<"r", 1>>, from |-> [x |-> 0, y |-> 0],
                          to |-> [x |-> 1, y |-> 1], color |-> None]>>,
        textBoxes |-> <<[id |-> <<"t", 1>>, tile |-> [x |-> 0, y |-> 1], content |-> "note",
                         orientation |-> "X", fontSize |-> None]>>],
       [id |-> <<"v", 3>>, name |-> <<"View", 3>>,
        items |-> <<at(9, 0, 1), at(2, 0, 0)>>,
        connectors |-> <<plain(3, <<FullAnchor(5, <<"n", 2>>)>>),
                         plain(4, <<FullAnchor(6, <<"n", 2>>), FullAnchor(7, <<"n", 9>>)>>)>>,
        rectangles |-> << >>, textBoxes |-> << >>],
       [id |-> <<"v", 4>>, name |-> <<"View", 4>>,
        items |-> <<at(2, 0, 0), at(1, 1, 0)>>,
        connectors |-> <<plain(5, <<FullAnchor(8, <<"n", 2>>), FullAnchor(9, <<"n", 3>>),
                                    FullAnchor(10, <<"n", 1>>)>>)>>,
        rectangles |-> << >>, textBoxes |-> << >>]}

FullInputs ==
  {[INITIAL_MODEL EXCEPT !.title = t, !.items = i, !.views = v] :
     t \in {TitleT, Str(84, TITLE_MAX + 1)},
     i \in SeqsUpTo(FullItems, MaxPayloadItems),
     v \in SeqsUpTo(FullViews, MaxPayloadViews)}

ConvIdle == /\ model = None /\ last = [op |-> "init"] /\ steps = 0
            /\ origin = "converter" /\ primaryOnly = TRUE
            /\ heap = << >> /\ snaps = << >> /\ held = << >>

\* payloads of any kind, for the functions that take an unknown value: primitives, {},
\* {foo:1}, t/i/v with a member that is no array, compact and full fields together,
\* metadata that is not compact or no object, a missing field
OtherInputs ==
  LET tiv(i, v) == [t |-> TitleT, i |-> i, v |-> v]
      both == [INITIAL_MODEL EXCEPT !.title = TitleT]
  IN  <<JsNull, JsUndefined, JsNumber, JsString,
        << >>,
        [foo |-> 1],
        tiv(JsString, << >>),
        tiv(<< >>, JsNull),
        tiv(<< >>, << >>) @@ both,
        both @@ ("_" :> CompactMeta),
        both @@ ("_" :> [f |-> "full", v |-> "1.0"]),
        tiv(JsString, << >>) @@ both @@ ("_" :> JsNumber),
        [title |-> TitleT, items |-> << >>],
        [title |-> JsNumber, items |-> JsNull, views |-> JsString],
        [title |-> TitleT, items |-> << >>, views |-> << >>],
        ("_" :> CompactMeta),
        tiv(<< >>, << >>) @@ ("_" :> JsNull),
        tiv(<< >>, << >>) @@ ("_" :> [f |-> "compact"]),
        tiv(JsNumber, JsNumber) @@ ("_" :> CompactMeta)>>

ConvInit ==
  /\ \/ /\ input \in CompactInputs \cup FullInputs
        /\ pc = "start"
     \/ /\ \E k \in DOMAIN OtherInputs : input = OtherInputs[k]
        /\ pc = "unknown"
  /\ output = None
  /\ ConvIdle

\* detectFormat(input)
ConvDetectFormat ==
  /\ pc \in {"start", "unknown"}
  /\ output' = detectFormat(input)
  /\ pc' = "detectFormat"
  /\ UNCHANGED <<input, mainVars, snapVars>>

\* validate(input)
ConvValidate ==
  /\ pc \in {"start", "unknown"}
  /\ output' = validate(input)
  /\ pc' = "validate"
  /\ UNCHANGED <<input, mainVars, snapVars>>

\* toFull(input)
ConvToFull ==
  /\ pc = "start"
  /\ detectFormat(input) = "compact"
  /\ output' = toFull(input, 1)
  /\ pc' = "toFull"
  /\ UNCHANGED <<input, mainVars, snapVars>>

\* toCompact(input)
ConvToCompact ==
  /\ pc = "start"
  /\ detectFormat(input) = "full"
  /\ output' = toCompact(input)
  /\ pc' = "toCompact"
  /\ UNCHANGED <<input, mainVars, snapVars>>

\* toCompact(toFull(input))
ConvBackToCompact ==
  /\ pc = "toFull"
  /\ output # Throws
  /\ output' = toCompact(output)
  /\ pc' = "toCompact.toFull"
  /\ UNCHANGED <<input, mainVars, snapVars>>

\* toFull(toCompact(input))
ConvBackToFull ==
  /\ pc = "toCompact"
  /\ output' = toFull(output, 1)
  /\ pc' = "toFull.toCompact"
  /\ UNCHANGED <<input, mainVars, snapVars>>

ConvNext ==
  \/ ConvDetectFormat
  \/ ConvValidate
  \/ ConvToFull
  \/ ConvToCompact
  \/ ConvBackToCompact
  \/ ConvBackToFull

SpecConv == ConvInit /\ [][ConvNext]_vars

----------------------------------------------------------------------------
(* The tools that change or remove one object of a diagram.  A tool takes   *)
(* the diagram as a payload, loads it, checks that the object exists and     *)
(* answers with the diagram the DiagramState operation returns.              *)

ToolFailure(message, error) ==
  [success |-> FALSE, diagram |-> None, message |-> <<message>>, error |-> Some(error)]

ToolSuccess(diagram, message) ==
  [success |-> TRUE, diagram |-> Some(diagram), message |-> message, error |-> None]

\* loadDiagram(params.diagram) inside try: the state, or the error that was caught
TryLoadDiagram(d) == IF normalize(d, 1) = Throws THEN Throws ELSE loadDiagram(d)

\* the frame all six tools share: format detection, load, existence check, operation
\* (exists and result are read only once the payload has loaded)
Tool(p, what, exists, failure, result) ==
  IF detectFormat(p.diagram) = "unknown"
  THEN ToolFailure(what, <<"Unable to detect diagram format">>)
  ELSE IF TryLoadDiagram(p.diagram) = Throws THEN ToolFailure(what, <<Throws.error>>)
  ELSE IF ~exists THEN ToolFailure(what, failure)
  ELSE result

\* newState.toJSON(params.outputFormat || format)
ToolDiagram(p, newState) == convertToFormat(newState, OrElseStr(p.outputFormat, detectFormat(p.diagram)))

\* tools/nodes: updateNode(params)
update_node(p) ==
  LET state == TryLoadDiagram(p.diagram)
      exists == Some_(state.items, p.nodeId)
      result ==
        LET existingNode == state.items[FindIndex(state.items, p.nodeId)]
            newState == updateNode(state, [nodeId |-> p.nodeId, name |-> p.name,
                                           icon |-> p.icon, description |-> p.description,
                                           x |-> p.x, y |-> p.y,
                                           labelHeight |-> p.labelHeight, viewId |-> None],
                                   FreshUuids(state))
            updates == (IF IsDef(p.name) /\ Get(p.name) # << >> THEN <<"name">> ELSE << >>)
                       \o (IF IsDef(p.icon) /\ Get(p.icon) # << >> THEN <<"icon">> ELSE << >>)
                       \o (IF IsDef(p.x) \/ IsDef(p.y) THEN <<"position">> ELSE << >>)
        IN  ToolSuccess(ToolDiagram(p, newState), <<"Updated node", existingNode.name, updates>>)
  IN  Tool(p, "Failed to update node", exists, <<"Node with ID", p.nodeId, "not found">>, result)

\* tools/nodes: removeNode(params)
remove_node(p) ==
  LET state == TryLoadDiagram(p.diagram)
      exists == Some_(state.items, p.nodeId)
      result ==
        LET existingNode == state.items[FindIndex(state.items, p.nodeId)]
            view == primaryView(state)
            affectedConnectors == {k \in 1..Len(view.connectors) :
                                     References(view.connectors[k], p.nodeId)}
            newState == removeNode(state, p.nodeId, None, FreshUuids(state))
        IN  ToolSuccess(ToolDiagram(p, newState),
                        <<"Removed node", existingNode.name, Cardinality(affectedConnectors)>>)
  IN  Tool(p, "Failed to remove node", exists, <<"Node with ID", p.nodeId, "not found">>, result)

\* tools/connectors: updateConnector(params)
update_connector(p) ==
  LET state == TryLoadDiagram(p.diagram)
      exists == Some_(primaryView(state).connectors, p.connectorId)
      result ==
        LET newState == updateConnector(state, [connectorId |-> p.connectorId, style |-> p.style,
                                                lineType |-> p.lineType, color |-> p.color,
                                                showArrow |-> p.showArrow, label |-> p.label,
                                                viewId |-> None],
                                        FreshUuids(state))
            updates == (IF IsDef(p.style) THEN <<"style">> ELSE << >>)
                       \o (IF IsDef(p.lineType) THEN <<"lineType">> ELSE << >>)
                       \o (IF IsDef(p.label) THEN <<"label">> ELSE << >>)
        IN  ToolSuccess(ToolDiagram(p, newState), <<"Updated connector", updates>>)
  IN  Tool(p, "Failed to update connector", exists,
           <<"Connector with ID", p.connectorId, "not found">>, result)

\* remove_connector without the check that the connector exists
remove_connectorUnverified(p) ==
  LET state == TryLoadDiagram(p.diagram)
      exists == TRUE
      result ==
        LET newState == removeConnector(state, p.connectorId, None, FreshUuids(state))
        IN  ToolSuccess(ToolDiagram(p, newState), <<"Removed connector", p.connectorId>>)
  IN  Tool(p, "Failed to remove connector", exists,
           <<"Connector with ID", p.connectorId, "not found">>, result)

\* tools/connectors: removeConnector(params)
remove_connector(p) ==
  LET state == TryLoadDiagram(p.diagram)
      exists == Some_(primaryView(state).connectors, p.connectorId)
      result ==
        LET newState == removeConnector(state, p.connectorId, None, FreshUuids(state))
        IN  ToolSuccess(ToolDiagram(p, newState), <<"Removed connector", p.connectorId>>)
  IN  Tool(p, "Failed to remove connector", exists,
           <<"Connector with ID", p.connectorId, "not found">>, result)

\* tools/annotations: removeRectangle(params)
remove_rectangle(p) ==
  LET state == TryLoadDiagram(p.diagram)
      exists == Some_(primaryView(state).rectangles, p.rectangleId)
      result ==
        LET newState == removeRectangle(state, p.rectangleId, None, FreshUuids(state))
        IN  ToolSuccess(ToolDiagram(p, newState), <<"Removed rectangle", p.rectangleId>>)
  IN  Tool(p, "Failed to remove rectangle", exists,
           <<"Rectangle with ID", p.rectangleId, "not found">>, result)

\* tools/annotations: removeTextBox(params)
remove_textbox(p) ==
  LET state == TryLoadDiagram(p.diagram)
      exists == Some_(primaryView(state).textBoxes, p.textBoxId)
      result ==
        LET newState == removeTextBox(state, p.textBoxId, None, FreshUuids(state))
        IN  ToolSuccess(ToolDiagram(p, newState), <<"Removed text box", p.textBoxId>>)
  IN  Tool(p, "Failed to remove text box", exists,
           <<"Text box with ID", p.textBoxId, "not found">>, result)

\* list[list.length - 1]?.id
LastId(list) == IF list = << >> THEN None ELSE Some(list[Len(list)].id)

\* tools/nodes: addNode(params)
add_node(p) ==
  LET state == TryLoadDiagram(p.diagram)
      result ==
        LET newState == addNode(state, [name |-> p.name, icon |-> p.icon,
                                        description |-> p.description, x |-> p.x, y |-> p.y,
                                        labelHeight |-> p.labelHeight, viewId |-> None],
                                FreshUuids(state))
            newNodeId == LastId(newState.items)
        IN  ToolSuccess(ToolDiagram(p, newState), <<"Added node", p.name, p.x, p.y>>)
              @@ [nodeId |-> newNodeId]
  IN  Tool(p, "Failed to add node", TRUE, << >>, result)

\* tools/connectors: addConnector(params)
add_connector(p) ==
  LET state == TryLoadDiagram(p.diagram)
      fromNode == Some_(state.items, p.fromNodeId)
      toNode == Some_(state.items, p.toNodeId)
      result ==
        LET newState == addConnector(state, [fromNodeId |-> p.fromNodeId,
                                             toNodeId |-> p.toNodeId, style |-> p.style,
                                             lineType |-> p.lineType, color |-> p.color,
                                             showArrow |-> p.showArrow, label |-> p.label,
                                             viewId |-> None],
                                     FreshUuids(state))
            newConnectorId == LastId(primaryView(newState).connectors)
        IN  ToolSuccess(ToolDiagram(p, newState),
                        <<"Added connector", state.items[FindIndex(state.items, p.fromNodeId)].name,
                          state.items[FindIndex(state.items, p.toNodeId)].name>>)
              @@ [connectorId |-> newConnectorId]
  IN  Tool(p, "Failed to add connector", fromNode /\ toNode,
           IF ~fromNode THEN <<"Source node", p.fromNodeId, "not found">>
           ELSE <<"Target node", p.toNodeId, "not found">>,
           result)

\* tools/annotations: addRectangle(params)
add_rectangle(p) ==
  LET state == TryLoadDiagram(p.diagram)
      result ==
        LET newState == addRectangle(state, [fromX |-> p.fromX, fromY |-> p.fromY,
                                             toX |-> p.toX, toY |-> p.toY,
                                             color |-> p.color, viewId |-> None],
                                     FreshUuids(state))
            newRectId == LastId(primaryView(newState).rectangles)
        IN  ToolSuccess(ToolDiagram(p, newState),
                        <<"Added rectangle", p.fromX, p.fromY, p.toX, p.toY>>)
              @@ [rectangleId |-> newRectId]
  IN  Tool(p, "Failed to add rectangle", TRUE, << >>, result)

\* tools/annotations: addTextBox(params)
add_textbox(p) ==
  LET state == TryLoadDiagram(p.diagram)
      result ==
        LET newState == addTextBox(state, [x |-> p.x, y |-> p.y, content |-> p.content,
                                           orientation |-> p.orientation,
                                           fontSize |-> p.fontSize, viewId |-> None],
                                   FreshUuids(state))
            newTextBoxId == LastId(primaryView(newState).textBoxes)
        IN  ToolSuccess(ToolDiagram(p, newState), <<"Added text box", p.content, p.x, p.y>>)
              @@ [textBoxId |-> newTextBoxId]
  IN  Tool(p, "Failed to add text box", TRUE, << >>, result)

\* Specification of the tools called on a payload: compact payloads with and without
\* their metadata, full Models, payloads of unknown format
ToolDiagrams ==
  LoadPayloads
    \cup {[t |-> TitleT, i |-> << <<NameA, << >>, << >> >> >>, v |-> << >>]}
    \cup {m \in FullInputs : m.title = TitleT}

\* the Model the tool works on, if the payload loads
Loaded(d) ==
  IF detectFormat(d) = "unknown" THEN None
  ELSE IF TryLoadDiagram(d) = Throws THEN None
  ELSE Some(TryLoadDiagram(d))

\* identifiers a caller may pass: of the objects of every view of the payload, unknown
ToolIds(d, kind) ==
  IF ~IsDef(Loaded(d)) THEN {UnknownId}
  ELSE LET m == Get(Loaded(d))
       IN  CASE kind = "node" -> NodeIds(m)
             [] kind = "connector" -> ConnectorIds(m)
             [] kind = "rectangle" -> RectangleIds(m)
             [] kind = "textBox" -> TextBoxIds(m)

OutputFormats == {None, Some("compact"), Some("full")}

ToolsIdle == /\ model = None /\ steps = 0 /\ origin = "tools" /\ primaryOnly = TRUE
             /\ heap = << >> /\ snaps = << >> /\ held = << >>

ToolsInit ==
  /\ \/ input \in ToolDiagrams
     \/ \E k \in DOMAIN OtherInputs :
          detectFormat(OtherInputs[k]) = "unknown" /\ input = OtherInputs[k]
  /\ output = None
  /\ pc = "start"
  /\ last = [op |-> "init"]
  /\ ToolsIdle

\* the tool answered the call with parameters p on the payload
Answer(tool, p, result) ==
  /\ pc = "start"
  /\ output' = result
  /\ pc' = tool
  /\ last' = [op |-> tool, p |-> p]
  /\ UNCHANGED <<input, model, steps, origin, primaryOnly, snapVars>>

ToolUpdateNode ==
  \E id \in ToolIds(input, "node") : \E q \in NodePatches : \E f \in OutputFormats :
    LET p == [nodeId |-> id, outputFormat |-> f] @@ q
    IN  Answer("update_node", p, update_node([diagram |-> input] @@ p))

ToolRemoveNode ==
  \E id \in ToolIds(input, "node") : \E f \in OutputFormats :
    LET p == [nodeId |-> id, outputFormat |-> f]
    IN  Answer("remove_node", p, remove_node([diagram |-> input] @@ p))

ToolUpdateConnector ==
  \E id \in ToolIds(input, "connector") : \E q \in ConnectorPatches : \E f \in OutputFormats :
    LET p == [connectorId |-> id, outputFormat |-> f] @@ q
    IN  Answer("update_connector", p, update_connector([diagram |-> input] @@ p))

ToolRemoveConnector ==
  \E id \in ToolIds(input, "connector") : \E f \in OutputFormats :
    LET p == [connectorId |-> id, outputFormat |-> f]
    IN  Answer("remove_connector", p, remove_connector([diagram |-> input] @@ p))

ToolRemoveRectangle ==
  \E id \in ToolIds(input, "rectangle") : \E f \in OutputFormats :
    LET p == [rectangleId |-> id, outputFormat |-> f]
    IN  Answer("remove_rectangle", p, remove_rectangle([diagram |-> input] @@ p))

ToolRemoveTextBox ==
  \E id \in ToolIds(input, "textBox") : \E f \in OutputFormats :
    LET p == [textBoxId |-> id, outputFormat |-> f]
    IN  Answer("remove_textbox", p, remove_textbox([diagram |-> input] @@ p))

ToolAddNode ==
  \E q \in AddNodeInputs(INITIAL_MODEL) : \E f \in OutputFormats :
    LET p == [x \in DOMAIN q \ {"viewId"} |-> q[x]] @@ [outputFormat |-> f]
    IN  q.viewId = None /\ Answer("add_node", p, add_node([diagram |-> input] @@ p))

ToolAddConnector ==
  \E a \in ToolIds(input, "node") : \E b \in ToolIds(input, "node") :
    \E look \in {DefaultLook, GivenLook} : \E f \in OutputFormats :
      LET p == [fromNodeId |-> a, toNodeId |-> b, outputFormat |-> f] @@ look
      IN  Answer("add_connector", p, add_connector([diagram |-> input] @@ p))

ToolAddRectangle ==
  \E q \in AddRectangleInputs(INITIAL_MODEL) : \E f \in OutputFormats :
    LET p == [x \in DOMAIN q \ {"viewId"} |-> q[x]] @@ [outputFormat |-> f]
    IN  q.viewId = None /\ Answer("add_rectangle", p, add_rectangle([diagram |-> input] @@ p))

ToolAddTextBox ==
  \E q \in AddTextBoxInputs(INITIAL_MODEL) : \E f \in OutputFormats :
    LET p == [x \in DOMAIN q \ {"viewId"} |-> q[x]] @@ [outputFormat |-> f]
    IN  q.viewId = None /\ Answer("add_textbox", p, add_textbox([diagram |-> input] @@ p))

ToolsNext ==
  \/ ToolAddNode
  \/ ToolAddConnector
  \/ ToolAddRectangle
  \/ ToolAddTextBox
  \/ ToolUpdateNode
  \/ ToolRemoveNode
  \/ ToolUpdateConnector
  \/ ToolRemoveConnector
  \/ ToolRemoveRectangle
  \/ ToolRemoveTextBox

SpecTools == ToolsInit /\ [][ToolsNext]_vars

\* batchOperations: the operations of one request are applied one after the other
SUPPORTED_OPERATIONS ==
  <<"add_node", "update_node", "remove_node", "add_connector", "update_connector",
    "remove_connector", "add_rectangle", "remove_rectangle", "add_textbox", "remove_textbox">>

Includes(list, x) == \E k \in 1..Len(list) : list[k] = x

\* result.<key>, undefined when the tool's answer has no such member
Member(result, key) == IF HasKey(result, key) THEN result[key] ELSE None

\* the members applyOperation copies from a tool's answer; a member the answer does not
\* have is undefined
operationResult(result) ==
  [k \in {"success", "diagram", "message", "error",
          "nodeId", "connectorId", "rectangleId", "textBoxId"} |-> Member(result, k)]

\* applyOperation(op, diagram, params): the tool of that name on the diagram, without
\* an outputFormat; every tool catches what it throws, so the catch here is not reached
applyOperation(op, diagram, params) ==
  operationResult(
    CASE op = "add_node" -> add_node(params @@ [diagram |-> diagram, outputFormat |-> None])
      [] op = "update_node" -> update_node(params @@ [diagram |-> diagram, outputFormat |-> None])
      [] op = "remove_node" -> remove_node(params @@ [diagram |-> diagram, outputFormat |-> None])
      [] op = "add_connector" -> add_connector(params @@ [diagram |-> diagram, outputFormat |-> None])
      [] op = "update_connector" -> update_connector(params @@ [diagram |-> diagram, outputFormat |-> None])
      [] op = "remove_connector" -> remove_connector(params @@ [diagram |-> diagram, outputFormat |-> None])
      [] op = "add_rectangle" -> add_rectangle(params @@ [diagram |-> diagram, outputFormat |-> None])
      [] op = "remove_rectangle" -> remove_rectangle(params @@ [diagram |-> diagram, outputFormat |-> None])
      [] op = "add_textbox" -> add_textbox(params @@ [diagram |-> diagram, outputFormat |-> None])
      [] op = "remove_textbox" -> remove_textbox(params @@ [diagram |-> diagram, outputFormat |-> None])
      [] OTHER -> [success |-> FALSE, error |-> Some(<<"Unknown operation", op>>)])

\* the loop's variables before the first operation
batchLoop(params) ==
  [results |-> << >>, currentDiagram |-> params.diagram, successCount |-> 0, errorCount |-> 0]

\* the result pushed for an operation that is not supported
unknownOperation(op) ==
  [op |-> op, success |-> FALSE, message |-> None,
   error |-> Some(<<"Unknown operation", op>>),
   nodeId |-> None, connectorId |-> None, rectangleId |-> None, textBoxId |-> None]

\* the result pushed for an operation that was applied
pushedResult(op, opResult) ==
  [k \in {"op"} \cup (DOMAIN opResult \ {"diagram"}) |-> IF k = "op" THEN op ELSE opResult[k]]

\* the loop's variables after an operation that was applied, a failure going back to
\* the diagram of the request
batchAppliedRollback(params, loop, op, opResult) ==
  IF opResult.success /\ IsDef(opResult.diagram)
  THEN [loop EXCEPT !.results = Append(@, pushedResult(op, opResult)),
                    !.currentDiagram = Get(opResult.diagram),
                    !.successCount = @ + 1]
  ELSE [loop EXCEPT !.results = Append(@, pushedResult(op, opResult)),
                    !.currentDiagram = params.diagram,
                    !.errorCount = @ + 1]

\* the loop's variables after an operation that was applied with the result opResult
batchApplied(params, loop, op, opResult) ==
  IF opResult.success /\ IsDef(opResult.diagram)
  THEN [loop EXCEPT !.results = Append(@, pushedResult(op, opResult)),
                    !.currentDiagram = Get(opResult.diagram),
                    !.successCount = @ + 1]
  ELSE [loop EXCEPT !.results = Append(@, pushedResult(op, opResult)),
                    !.errorCount = @ + 1]

\* one turn of the loop of batchOperations, on the operation {op, params}
batchStep(params, loop, operation) ==
  IF ~Includes(SUPPORTED_OPERATIONS, operation.op)
  THEN [loop EXCEPT !.results = Append(@, unknownOperation(operation.op)),
                    !.errorCount = @ + 1]
  ELSE batchApplied(params, loop, operation.op,
                    applyOperation(operation.op, loop.currentDiagram, operation.params))

\* what batchOperations returns after the loop, or the error the final load throws
\* (the request asks for no preview)
batchReturn(params, loop) ==
  LET outputFormat == OrElseStr(params.outputFormat, detectFormat(params.diagram))
      state == TryLoadDiagram(loop.currentDiagram)
  IN  IF state = Throws THEN Throws
      ELSE [success |-> loop.errorCount = 0,
            diagram |-> Some(convertToFormat(state, outputFormat)),
            results |-> loop.results,
            successCount |-> loop.successCount,
            errorCount |-> loop.errorCount,
            preview |-> None,
            error |-> None]

\* the answer of batchOperations to a diagram of unknown format
batchUnknown ==
  [success |-> FALSE, diagram |-> None, results |-> << >>, successCount |-> 0,
   errorCount |-> 0, preview |-> None, error |-> Some(<<"Unable to detect diagram format">>)]

\* Specification of one batchOperations call: the request's operations are taken one by
\* one (last.operations is the list so far), then the call returns or throws
BatchDiagrams ==
  {createEmptyDiagram(None),
   toCompact(createEmptyDiagram(None)),
   Compact(TitleT, << <<NameA, << >>, << >> >>, <<NameB, << >>, << >> >> >>,
           << << << <<0, 0, 0>>, <<1, 1, 0>> >>, << <<0, 1>> >> >> >>),
   [t |-> TitleT, i |-> << <<NameA, << >>, << >> >> >>, v |-> << >>]}

\* identifiers a request may name: of the working diagram, reported by earlier
\* results, unknown
BatchIds(loop, kind) ==
  LET key == CASE kind = "node" -> "nodeId"
               [] kind = "connector" -> "connectorId"
               [] kind = "rectangle" -> "rectangleId"
               [] kind = "textBox" -> "textBoxId"
      reported == {Get(loop.results[k][key]) :
                     k \in {j \in 1..Len(loop.results) : IsDef(loop.results[j][key])}}
      loaded == Loaded(loop.currentDiagram)
      heldIds == IF ~IsDef(loaded) THEN {}
                 ELSE CASE kind = "node" -> ItemIds(Get(loaded))
                        [] kind = "connector" -> ConnectorIds(Get(loaded))
                        [] kind = "rectangle" -> RectangleIds(Get(loaded))
                        [] kind = "textBox" -> TextBoxIds(Get(loaded))
  IN  heldIds \cup reported \cup {UnknownId}

UnsupportedOperation == "move_node"

requestsOn(nodes, connectors, rectangles, textBoxes) ==
  LET plain(q) == [x \in DOMAIN q \ {"viewId"} |-> q[x]]
  IN  {[op |-> "add_node", params |-> plain(q)] :
         q \in {r \in AddNodeInputs(INITIAL_MODEL) : r.viewId = None /\ r.name = NameA}}
      \cup {[op |-> "update_node",
             params |-> [nodeId |-> id, name |-> Some(NameB), icon |-> None,
                         description |-> None, x |-> None, y |-> None, labelHeight |-> None]] :
              id \in nodes}
      \cup {[op |-> "remove_node", params |-> [nodeId |-> id]] : id \in nodes}
      \cup {[op |-> "add_connector",
             params |-> [fromNodeId |-> a, toNodeId |-> b] @@ DefaultLook] :
              a \in nodes \ {UnknownId}, b \in nodes}
      \cup {[op |-> "update_connector", params |-> [connectorId |-> id] @@ GivenLook] :
              id \in connectors}
      \cup {[op |-> "remove_connector", params |-> [connectorId |-> id]] : id \in connectors}
      \cup {[op |-> "add_rectangle", params |-> plain(q)] :
              q \in {r \in AddRectangleInputs(INITIAL_MODEL) : r.viewId = None}}
      \cup {[op |-> "remove_rectangle", params |-> [rectangleId |-> id]] : id \in rectangles}
      \cup {[op |-> "add_textbox", params |-> plain(q)] :
              q \in {r \in AddTextBoxInputs(INITIAL_MODEL) : r.viewId = None}}
      \cup {[op |-> "remove_textbox", params |-> [textBoxId |-> id]] : id \in textBoxes}
      \cup {[op |-> UnsupportedOperation, params |-> [nodeId |-> UnknownId]]}

\* the operations a request may hold next
BatchRequests(loop) ==
  requestsOn(BatchIds(loop, "node"), BatchIds(loop, "connector"),
             BatchIds(loop, "rectangle"), BatchIds(loop, "textBox"))

BatchIdle == /\ model = None /\ steps = 0 /\ origin = "batch" /\ primaryOnly = TRUE
             /\ heap = << >> /\ snaps = << >> /\ held = << >>

BatchInit ==
  /\ \/ \E d \in BatchDiagrams : \E f \in OutputFormats :
          input = [diagram |-> d, outputFormat |-> f, includePreview |-> FALSE]
     \/ \E k \in DOMAIN OtherInputs :
          /\ detectFormat(OtherInputs[k]) = "unknown"
          /\ input = [diagram |-> OtherInputs[k], outputFormat |-> None, includePreview |-> FALSE]
  /\ output = None
  /\ pc = "start"
  /\ last = [op |-> "batch", operations |-> << >>]
  /\ BatchIdle

\* the format is detected: unknown returns at once, else the loop starts
BatchBegin ==
  /\ pc = "start"
  /\ IF detectFormat(input.diagram) = "unknown"
     THEN output' = batchUnknown /\ pc' = "returned"
     ELSE output' = batchLoop(input) /\ pc' = "loop"
  /\ UNCHANGED <<input, mainVars, snapVars>>

\* the next operation of the request
BatchStep ==
  /\ pc = "loop"
  /\ Len(last.operations) < MaxBatch
  /\ \E operation \in BatchRequests(output) :
       /\ output' = batchStep(input, output, operation)
       /\ last' = [last EXCEPT !.operations = Append(@, operation)]
  /\ pc' = "loop"
  /\ UNCHANGED <<input, model, steps, origin, primaryOnly, snapVars>>

\* the request has no more operations
BatchReturn ==
  /\ pc = "loop"
  /\ output' = batchReturn(input, output)
  /\ pc' = IF HasKey(output', "results") THEN "returned" ELSE "thrown"
  /\ UNCHANGED <<input, mainVars, snapVars>>

BatchNext ==
  \/ BatchBegin
  \/ BatchStep
  \/ BatchReturn

SpecBatch == BatchInit /\ [][BatchNext]_vars

\* renderAscii: the character grid of the first view.  A cell holds a character code or
\* a line-drawing or arrow glyph; the grid is kept as the cells written so far, every
\* other cell being blank
ASCII_NAME_MAX == 12
ASCII_ICON_MAX == 10
ASCII_PADDING == 2
CELL_WIDTH == 16
CELL_HEIGHT == 3
BOX_MARGIN == 4
EMPTY_TITLE_PAD == 23

Char(code) == [char |-> code]
Glyph(name) == [glyph |-> name]
Blank == Char(32)
Horizontal == Glyph("light horizontal")
Vertical == Glyph("light vertical")
DownRight == Glyph("light down and right")
DownLeft == Glyph("light down and left")
UpRight == Glyph("light up and right")
UpLeft == Glyph("light up and left")
ArrowRight == Glyph("right-pointing triangle")
ArrowLeft == Glyph("left-pointing triangle")
ArrowDown == Glyph("down-pointing triangle")
ArrowUp == Glyph("up-pointing triangle")
Arrows == {ArrowRight, ArrowLeft, ArrowDown, ArrowUp}

Min(S) == CHOOSE x \in S : \A y \in S : x <= y
Max(S) == CHOOSE x \in S : \A y \in S : y <= x

\* s.padStart(n) and s.padEnd(n), on sequences of character codes
padStart(s, n) == [k \in 1..(n - Len(s)) |-> 32] \o s
padEnd(s, n) == s \o [k \in 1..(n - Len(s)) |-> 32]

\* grid[y][x], blank where nothing was written
Cell(grid, y, x) == IF <<y, x>> \in DOMAIN grid.cells THEN grid.cells[<<y, x>>] ELSE Blank

\* safeWrite(grid, y, x, char)
safeWrite(grid, y, x, char) ==
  IF y >= 0 /\ y < grid.height /\ x >= 0 /\ x < grid.width
  THEN IF Cell(grid, y, x) \in {Blank, Horizontal, Vertical}
       THEN [grid EXCEPT !.cells = (<<y, x>> :> char) @@ @]
       ELSE grid
  ELSE grid

\* the calls safeWrite(grid, w[1], w[2], w[3]) one after the other
RECURSIVE writeEach(_, _)
writeEach(grid, writes) ==
  IF writes = << >> THEN grid
  ELSE writeEach(safeWrite(grid, writes[1][1], writes[1][2], writes[1][3]), Tail(writes))

\* the same calls taken cell by cell: a write changes no cell but its own, so each
\* cell ends as the writes made to it, in their order, leave it
writeAll(grid, writes) ==
  LET old == grid.cells
      touched == {<<writes[k][1], writes[k][2]>> :
                    k \in {j \in 1..Len(writes) :
                             /\ writes[j][1] >= 0 /\ writes[j][1] < grid.height
                             /\ writes[j][2] >= 0 /\ writes[j][2] < grid.width}}
      made(c) == SelectSeq(writes, LAMBDA w : w[1] = c[1] /\ w[2] = c[2])
  IN  [grid EXCEPT !.cells = [c \in touched \cup DOMAIN old |->
                                IF c \in touched
                                THEN Cell(writeEach(grid, made(c)), c[1], c[2])
                                ELSE old[c]]]

\* for (x = min(a, b) + 1; x < max(a, b); x++) write(y, x, char)
Across(y, a, b, char) ==
  LET lo == IF a < b THEN a ELSE b
      hi == IF a < b THEN b ELSE a
  IN  [i \in 1..(hi - lo - 1) |-> <<y, lo + i, char>>]

\* for (y = min(a, b) + 1; y < max(a, b); y++) write(y, x, char)
Along(x, a, b, char) ==
  LET lo == IF a < b THEN a ELSE b
      hi == IF a < b THEN b ELSE a
  IN  [i \in 1..(hi - lo - 1) |-> <<lo + i, x, char>>]

\* the box of drawNodeBox: its top-left corner and width
nodeBox(cx, cy, name, icon) ==
  LET width == (IF Len(name) > Len(icon) THEN Len(name) ELSE Len(icon)) + BOX_MARGIN
      halfWidth == width \div 2
  IN  [width |-> width,
       startX |-> IF cx - halfWidth > 0 THEN cx - halfWidth ELSE 0,
       startY |-> IF cy - 1 > 0 THEN cy - 1 ELSE 0]

\* the writes of drawNodeBox, in order: top border, name row, bottom border
nodeBoxWrites(cx, cy, name, icon) ==
  LET box == nodeBox(cx, cy, name, icon)
      width == box.width
      startX == box.startX
      startY == box.startY
      paddedName == padEnd(padStart(name, (width - 2 + Len(name)) \div 2), width - 2)
  IN  << <<startY, startX, DownRight>> >>
        \o [i \in 1..(width - 2) |-> <<startY, startX + i, Horizontal>>]
        \o << <<startY, startX + width - 1, DownLeft>> >>
        \o << <<startY + 1, startX, Vertical>> >>
        \o [i \in 1..Len(paddedName) |-> <<startY + 1, startX + i, Char(paddedName[i])>>]
        \o << <<startY + 1, startX + width - 1, Vertical>> >>
        \o << <<startY + 2, startX, UpRight>> >>
        \o [i \in 1..(width - 2) |-> <<startY + 2, startX + i, Horizontal>>]
        \o << <<startY + 2, startX + width - 1, UpLeft>> >>

\* drawNodeBox(grid, cx, cy, name, icon)
drawNodeBox(grid, cx, cy, name, icon) ==
  LET box == nodeBox(cx, cy, name, icon)
  IN  IF box.startY >= grid.height \/ box.startX >= grid.width THEN grid
      ELSE writeAll(grid, nodeBoxWrites(cx, cy, name, icon))

\* drawLine drawing its arrow for a line of no length too, on the end itself
lineArrowAlways(x1, y1, x2, y2) ==
  LET dx == x2 - x1
      dy == y2 - y1
      arrowChar == IF dx > 0 THEN ArrowRight ELSE IF dx < 0 THEN ArrowLeft
                   ELSE IF dy > 0 THEN ArrowDown ELSE ArrowUp
      arrowX == x2 + (IF dx > 0 THEN -2 ELSE IF dx < 0 THEN 2 ELSE 0)
      arrowY == y2 + (IF dy > 0 THEN -1 ELSE IF dy < 0 THEN 1 ELSE 0)
  IN  IF dx # 0 THEN Some(<<y2, arrowX, arrowChar>>)
      ELSE Some(<<arrowY, x2, arrowChar>>)

\* the arrow of drawLine: its glyph and cell, None when the line has no length
lineArrow(x1, y1, x2, y2) ==
  LET dx == x2 - x1
      dy == y2 - y1
      arrowChar == IF dx > 0 THEN ArrowRight ELSE IF dx < 0 THEN ArrowLeft
                   ELSE IF dy > 0 THEN ArrowDown ELSE ArrowUp
      arrowX == x2 + (IF dx > 0 THEN -2 ELSE IF dx < 0 THEN 2 ELSE 0)
      arrowY == y2 + (IF dy > 0 THEN -1 ELSE IF dy < 0 THEN 1 ELSE 0)
  IN  IF dx # 0 THEN Some(<<y2, arrowX, arrowChar>>)
      ELSE IF dy # 0 THEN Some(<<arrowY, x2, arrowChar>>)
      ELSE None

\* drawLine(grid, x1, y1, x2, y2, showArrow): Manhattan routing through midX
drawLine(grid, x1, y1, x2, y2, showArrow) ==
  LET dx == x2 - x1
      dy == y2 - y1
      midX == x1 + (dx \div 2)
      corner1 == IF dy > 0 THEN (IF dx > 0 THEN DownLeft ELSE DownRight)
                 ELSE IF dx > 0 THEN UpLeft ELSE UpRight
      corner2 == IF dy > 0 THEN (IF dx > 0 THEN UpRight ELSE UpLeft)
                 ELSE IF dx > 0 THEN DownRight ELSE DownLeft
      arrow == lineArrow(x1, y1, x2, y2)
  IN  writeAll(grid,
        Across(y1, x1, midX, Horizontal)
          \o Along(midX, y1, y2, Vertical)
          \o Across(y2, midX, x2, Horizontal)
          \o (IF dx # 0 /\ dy # 0
              THEN << <<y1, midX, corner1>>, <<y2, midX, corner2>> >> ELSE << >>)
          \o (IF showArrow /\ IsDef(arrow) THEN <<Get(arrow)>> ELSE << >>))

\* bounding box of the placements, padded, and the size of the grid in characters
gridOf(view) ==
  LET xs == {view.items[k].tile.x : k \in 1..Len(view.items)}
      ys == {view.items[k].tile.y : k \in 1..Len(view.items)}
      gridMinX == Min(xs) - ASCII_PADDING
      gridMaxX == Max(xs) + ASCII_PADDING
      gridMinY == Min(ys) - ASCII_PADDING
      gridMaxY == Max(ys) + ASCII_PADDING
  IN  [minX |-> Min(xs), maxX |-> Max(xs), minY |-> Min(ys), maxY |-> Max(ys),
       gridMinX |-> gridMinX, gridMinY |-> gridMinY,
       width |-> (gridMaxX - gridMinX + 1) * CELL_WIDTH,
       height |-> (gridMaxY - gridMinY + 1) * CELL_HEIGHT]

\* toCharCoords(tile)
toCharCoords(view, tile) ==
  [cx |-> (tile.x - gridOf(view).gridMinX) * CELL_WIDTH + (CELL_WIDTH \div 2),
   cy |-> (tile.y - gridOf(view).gridMinY) * CELL_HEIGHT + (CELL_HEIGHT \div 2)]

\* view.items.find(vi => vi.id === id): its index, 0 for undefined
findItem(view, id) == FindIndex(view.items, id)

\* one turn of the loop over the connectors
renderConnector(view, grid, connector) ==
  IF Len(connector.anchors) < 2 THEN grid
  ELSE LET startItem == findItem(view, connector.anchors[1].ref.item)
           endItem == findItem(view, connector.anchors[Len(connector.anchors)].ref.item)
       IN  IF startItem = 0 \/ endItem = 0 THEN grid
           ELSE LET start == toCharCoords(view, view.items[startItem].tile)
                    end == toCharCoords(view, view.items[endItem].tile)
                IN  drawLine(grid, start.cx, start.cy, end.cx, end.cy,
                             connector.showArrow # FALSE)

\* one turn of the loop over the view items
renderNode(m, view, grid, viewItem) ==
  LET modelItem == FindIndex(m.items, viewItem.id)
  IN  IF modelItem = 0 THEN grid
      ELSE LET at == toCharCoords(view, viewItem.tile)
               name == Slice(m.items[modelItem].name, ASCII_NAME_MAX)
               icon == Slice(OrElse(m.items[modelItem].icon, << >>), ASCII_ICON_MAX)
           IN  drawNodeBox(grid, at.cx, at.cy, name, icon)

\* renderAscii returns the empty-diagram box
rendersEmpty(m) == Len(m.views) = 0 \/ Len(m.views[1].items) = 0

\* Specification of one renderAscii call: the grid is made, the connectors are drawn
\* one by one, then the nodes, then the text is put together

AsciiNames == {NameA, Str(76, ASCII_NAME_MAX + 1)}

AsciiConnector(n, from, to, showArrow) ==
  [id |-> <<"c", n>>, anchors |-> <<FullAnchor(2 * n - 1, from), FullAnchor(2 * n, to)>>,
   style |-> "SOLID", lineType |-> "SINGLE", color |-> None, showArrow |-> showArrow,
   description |-> None]

\* Models of two items, the second placed anywhere or not at all, and a third placement
\* that is no item's; connectors between any two of the three identifiers
AsciiInputs ==
  LET item(n, name, icon) == [id |-> <<"n", n>>, name |-> name, icon |-> icon,
                              description |-> None]
      at(n, x, y) == [id |-> <<"n", n>>, tile |-> [x |-> x, y |-> y],
                      labelHeight |-> DEFAULT_LABEL_HEIGHT]
      ends == {<<"n", 1>>, <<"n", 2>>, <<"n", 9>>}
      links == {<<a, b, w>> : a \in {<<"n", 1>>, <<"n", 2>>}, b \in ends,
                              w \in BOOLEAN}
  IN  {[INITIAL_MODEL EXCEPT
          !.title = TitleT,
          !.items = <<item(1, NameA, Some(IconI)), item(2, name, None)>>,
          !.views = <<[createDefaultView(1) EXCEPT
                         !.items = <<at(1, 0, 0)>> \o second,
                         !.connectors = [k \in 1..Len(cs) |->
                                           AsciiConnector(k, cs[k][1], cs[k][2], cs[k][3])]]>>] :
         name \in AsciiNames,
         second \in {<< >>} \cup {<<at(2, x, y)>> : x \in 0..MaxTile, y \in 0..MaxTile}
                           \cup {<<at(2, 1, 0), at(9, 0, 1)>>},
         cs \in SeqsUpTo(links, MaxConnectors)}
    \cup {createEmptyDiagram(None), FullNoViews}
    \cup {c \in LoadPayloads : toFull(c, 1) # Throws}

AsciiIdle == /\ model = None /\ steps = 0 /\ origin = "ascii" /\ primaryOnly = TRUE
             /\ heap = << >> /\ snaps = << >> /\ held = << >>
             /\ last = [op |-> "renderAscii"]

AsciiInit ==
  /\ input \in AsciiInputs
  /\ output = None
  /\ pc = "start"
  /\ AsciiIdle

\* normalize, the empty-diagram box or the blank grid
AsciiBegin ==
  /\ pc = "start"
  /\ LET m == normalize(input, 1)
     IN  IF rendersEmpty(m)
         THEN /\ output' = [empty |-> TRUE, title |-> padEnd(m.title, EMPTY_TITLE_PAD)]
              /\ pc' = "rendered"
         ELSE /\ output' = [model |-> m, connector |-> 1, item |-> 1,
                            grid |-> [height |-> gridOf(m.views[1]).height,
                                      width |-> gridOf(m.views[1]).width,
                                      cells |-> << >>]]
              /\ pc' = "connectors"
  /\ UNCHANGED <<input, mainVars, snapVars>>

\* the next connector is drawn
AsciiConnectorTurn ==
  /\ pc = "connectors"
  /\ output.connector <= Len(output.model.views[1].connectors)
  /\ output' = [output EXCEPT
                  !.grid = renderConnector(output.model.views[1], @,
                                           output.model.views[1].connectors[output.connector]),
                  !.connector = @ + 1]
  /\ UNCHANGED <<input, pc, mainVars, snapVars>>

\* every connector is drawn: the nodes follow
AsciiConnectorsDone ==
  /\ pc = "connectors"
  /\ output.connector > Len(output.model.views[1].connectors)
  /\ pc' = "nodes"
  /\ UNCHANGED <<input, output, mainVars, snapVars>>

\* the next node is drawn
AsciiNodeTurn ==
  /\ pc = "nodes"
  /\ output.item <= Len(output.model.views[1].items)
  /\ output' = [output EXCEPT
                  !.grid = renderNode(output.model, output.model.views[1], @,
                                      output.model.views[1].items[output.item]),
                  !.item = @ + 1]
  /\ UNCHANGED <<input, pc, mainVars, snapVars>>

\* the rows (trimmed, then padded back to the grid's width) between the title and the
\* legend
AsciiFinish ==
  /\ pc = "nodes"
  /\ output.item > Len(output.model.views[1].items)
  /\ output' = [empty |-> FALSE,
                model |-> output.model,
                title |-> padEnd(output.model.title, output.grid.width),
                grid |-> output.grid,
                nodes |-> Len(output.model.views[1].items),
                connectors |-> Len(output.model.views[1].connectors),
                coords |-> [k \in {"minX", "maxX", "minY", "maxY"} |->
                              gridOf(output.model.views[1])[k]]]
  /\ pc' = "rendered"
  /\ UNCHANGED <<input, mainVars, snapVars>>

AsciiNext ==
  \/ AsciiBegin
  \/ AsciiConnectorTurn
  \/ AsciiConnectorsDone
  \/ AsciiNodeTurn
  \/ AsciiFinish

SpecAscii == AsciiInit /\ [][AsciiNext]_vars

----------------------------------------------------------------------------
(* Properties of the node and connector operations.  Each ranges, at every *)
(* reachable state, over all the inputs of the operation it is about.      *)

HasItem(m, id) == \E k \in 1..Len(m.items) : m.items[k].id = id

Placed(view, id) == \E k \in 1..Len(view.items) : view.items[k].id = id

\* k is the first position of s whose element carries id
IsFirstOf(s, id, k) == s[k].id = id /\ \A j \in 1..(k - 1) : s[j].id # id

\* views[k] is the view a viewId argument names: the first view when the argument
\* is absent, the view of that id otherwise
Names(m, viewId, k) == IF viewId = None THEN k = 1 ELSE viewId = Some(m.views[k].id)

NamesNoView(m, viewId) == viewId # None /\ \A k \in 1..Len(m.views) : ~Names(m, viewId, k)

\* m2 is m but for the items of views[k]
SameButViewItems(m, m2, k) ==
  /\ Len(m2.views) = Len(m.views)
  /\ [m2 EXCEPT !.views[k].items = m.views[k].items] = [m EXCEPT !.views = m.views]

\* C3: from an empty diagram, under operations on the primary view only, every
\* connector of the primary view has exactly two anchors and each anchor references
\* a ViewItem of the primary view.
C3_NoDanglingConnector ==
  (origin = "empty" /\ primaryOnly) =>
    \A k \in 1..Len(primaryView(model).connectors) :
      LET connector == primaryView(model).connectors[k]
      IN  /\ Len(connector.anchors) = 2
          /\ \A a \in 1..2 : Placed(primaryView(model), connector.anchors[a].ref.item)

\* a node was removed from a diagram grown from empty on the primary view, and a
\* connector between the remaining nodes is still there
C3_Witness ==
  /\ origin = "empty" /\ primaryOnly
  /\ last.op = "removeNode"
  /\ primaryView(model).connectors # << >>
  /\ model.items # << >>

\* C4: addConnector leaves the model as it is when an endpoint has no ViewItem in the
\* target view (also when a ModelItem of that id exists); otherwise it appends one
\* connector to the target view, with two anchors (from, then to) and style SOLID,
\* lineType SINGLE, showArrow true unless given, and changes nothing else.
C4_AddConnector ==
  LET u == FreshUuids(model)
  IN  \A p \in AddConnectorInputs(model) :
        LET m2 == addConnector(model, p, u)
            targets == {k \in 1..Len(model.views) :
                          /\ Names(model, p.viewId, k)
                          /\ Placed(model.views[k], p.fromNodeId)
                          /\ Placed(model.views[k], p.toNodeId)}
        IN  IF targets = {} THEN m2 = model
            ELSE \E k \in targets :
                   LET old == model.views[k].connectors
                       new == m2.views[k].connectors
                       c == new[Len(new)]
                   IN  /\ Len(new) = Len(old) + 1
                       /\ SubSeq(new, 1, Len(old)) = old
                       /\ [m2 EXCEPT !.views[k].connectors = old] = model
                       /\ Len(c.anchors) = 2
                       /\ c.anchors[1].ref.item = p.fromNodeId
                       /\ c.anchors[2].ref.item = p.toNodeId
                       /\ c.style = (IF IsDef(p.style) THEN Get(p.style) ELSE "SOLID")
                       /\ c.lineType = (IF IsDef(p.lineType) THEN Get(p.lineType) ELSE "SINGLE")
                       /\ c.showArrow = (IF IsDef(p.showArrow) THEN Get(p.showArrow) ELSE TRUE)

\* addConnector has appended a connector, and an item of the diagram has no
\* ViewItem in some view (a call with it as an endpoint there adds nothing)
C4_Witness ==
  /\ last.op = "addConnector"
  /\ \E v \in 1..Len(model.views) :
       /\ \E k \in 1..Len(model.views[v].connectors) :
            model.views[v].connectors[k].id[1] = "connector-id"
       /\ \E i \in 1..Len(model.items) : ~Placed(model.views[v], model.items[i].id)

\* C7: updateNode on an existing node overwrites the supplied fields only: name, icon,
\* description in that ModelItem; x, y, labelHeight in that node's ViewItem of the view
\* the viewId argument names; the node's identifier, the fields not supplied, every
\* other item and ViewItem, and every connector, rectangle and text box are unchanged.
C7_UpdateNodeFrame ==
  LET u == FreshUuids(model)
  IN  \A p \in UpdateNodeInputs(model) :
        HasItem(model, p.nodeId) =>
          LET m2 == updateNode(model, p, u)
              ik == CHOOSE k \in 1..Len(model.items) : IsFirstOf(model.items, p.nodeId, k)
              old == model.items[ik]
              new == m2.items[ik]
          IN  /\ Len(m2.items) = Len(model.items)
              /\ [m2 EXCEPT !.items = model.items, !.views = model.views] = model
              /\ \A k \in 1..Len(model.items) : k # ik => m2.items[k] = model.items[k]
              /\ new.id = old.id
              /\ new.name = (IF IsDef(p.name) THEN Get(p.name) ELSE old.name)
              /\ new.icon = (IF IsDef(p.icon) THEN p.icon ELSE old.icon)
              /\ new.description = (IF IsDef(p.description) THEN p.description ELSE old.description)
              /\ Len(m2.views) = Len(model.views)
              /\ \A k \in 1..Len(model.views) :
                   LET view == model.views[k]
                       view2 == m2.views[k]
                   IN  /\ [view2 EXCEPT !.items = view.items] = view
                       /\ Len(view2.items) = Len(view.items)
                       /\ \A j \in 1..Len(view.items) :
                            IF Names(model, p.viewId, k) /\ IsFirstOf(view.items, p.nodeId, j)
                            THEN /\ view2.items[j].id = view.items[j].id
                                 /\ view2.items[j].tile.x =
                                      (IF IsDef(p.x) THEN Get(p.x) ELSE view.items[j].tile.x)
                                 /\ view2.items[j].tile.y =
                                      (IF IsDef(p.y) THEN Get(p.y) ELSE view.items[j].tile.y)
                                 /\ view2.items[j].labelHeight =
                                      (IF IsDef(p.labelHeight) THEN Get(p.labelHeight)
                                       ELSE view.items[j].labelHeight)
                            ELSE view2.items[j] = view.items[j]

\* updateNode has renamed the first item and moved its ViewItem in the primary view,
\* next to another item that carries an icon and a description
C7_Witness ==
  /\ last.op = "updateNode"
  /\ Len(model.items) >= 2
  /\ model.items[1].name = NameB
  /\ \E k \in 2..Len(model.items) : IsDef(model.items[k].icon)
  /\ \E j \in 1..Len(primaryView(model).items) :
       /\ primaryView(model).items[j].id = model.items[1].id
       /\ primaryView(model).items[j].tile.x = 1

\* C2: after removeNode(nodeId) with no viewId or the id of an existing view V, no
\* ModelItem has that id, V (the primary view without viewId) has no ViewItem of that
\* id and no connector with an anchor on it; the connectors of V that do not reference
\* the node, and the connectors of every other view, are kept as they were.
C2_RemoveNodeClears ==
  LET u == FreshUuids(model)
  IN  \A p \in RemoveNodeInputs(model) :
        LET m2 == removeNode(model, p.nodeId, p.viewId, u)
        IN  \A k \in 1..Len(model.views) :
              Names(model, p.viewId, k) =>
                /\ ~HasItem(m2, p.nodeId)
                /\ ~Placed(m2.views[k], p.nodeId)
                /\ \A c \in 1..Len(m2.views[k].connectors) :
                     ~References(m2.views[k].connectors[c], p.nodeId)
                /\ m2.views[k].connectors =
                     SelectSeq(model.views[k].connectors,
                               LAMBDA connector : ~References(connector, p.nodeId))
                /\ \A w \in 1..Len(model.views) :
                     w # k => m2.views[w].connectors = model.views[w].connectors

\* C5: addNode appends one ModelItem with a new identifier at the end of items and one
\* ViewItem with that identifier, tile (x,y) and labelHeight 80 unless given, to the
\* view of id viewId, or to the primary view when viewId is absent or names no view;
\* nothing else changes.
C5_AddNodeResolvedView ==
  LET u == FreshUuids(model)
  IN  \A p \in AddNodeInputs(model) :
        LET m2 == addNode(model, p, u)
            r == IF NamesNoView(model, p.viewId) THEN 1
                 ELSE CHOOSE k \in 1..Len(model.views) : Names(model, p.viewId, k)
            item == m2.items[Len(m2.items)]
        IN  /\ Len(m2.items) = Len(model.items) + 1
            /\ SubSeq(m2.items, 1, Len(model.items)) = model.items
            /\ ~HasItem(model, item.id)
            /\ item.name = p.name /\ item.icon = p.icon /\ item.description = p.description
            /\ SameButViewItems(model, [m2 EXCEPT !.items = model.items], r)
            /\ m2.views[r].items =
                 Append(model.views[r].items,
                        [id |-> item.id, tile |-> [x |-> p.x, y |-> p.y],
                         labelHeight |-> IF IsDef(p.labelHeight) THEN Get(p.labelHeight) ELSE 80])

\* C6: updateNode returns the receiver's model whenever nodeId matches no ModelItem,
\* and whenever the given viewId matches no view.
C6_UpdateNodeNoOp ==
  LET u == FreshUuids(model)
  IN  \A p \in UpdateNodeInputs(model) :
        (~HasItem(model, p.nodeId) \/ NamesNoView(model, p.viewId)) =>
          updateNode(model, p, u) = model

\* C8: removeNode is idempotent: removing the same node from the same view a second
\* time changes nothing.
C8_RemoveNodeIdempotent ==
  LET u == FreshUuids(model)
  IN  \A p \in RemoveNodeInputs(model) :
        LET m1 == removeNode(model, p.nodeId, p.viewId, u)
        IN  removeNode(m1, p.nodeId, p.viewId, FreshUuids(m1)) = m1

\* C1: no mutation operation changes the Model of the instance it is called on, and
\* every instance handed out keeps, through all later operations on any instance,
\* exactly the Model it held when it was returned.
C1_SnapshotsKeepTheirModel ==
  \A k \in 1..Len(snaps) : Deref(heap, snaps[k]) = held[k]

\* three instances, each derived from the one before, hold three different Models
\* and the last two share the items array the operation between them did not change
C1_Witness ==
  /\ Len(snaps) = 3
  /\ held[1] # held[2] /\ held[2] # held[3] /\ held[1] # held[3]
  /\ heap[snaps[2]].items = heap[snaps[3]].items
  /\ snaps[2] # snaps[3]

\* C9: for every compact diagram c that passes validateCompact, r = toCompact(toFull(c))
\* has r.t equal to c.t cut to 40 characters, r.i equal to c.i element for element and,
\* for each view of c, the same connections list position by position.
C9_CompactRoundTrip ==
  (pc = "toCompact.toFull" /\ validateCompact(input).valid) =>
    /\ output.t = Slice(input.t, 40)
    /\ output.i = input.i
    /\ \A k \in 1..Len(input.v) :
         /\ k <= Len(output.v)
         /\ output.v[k][2] = input.v[k][2]

\* C10: for every full Model m, toFull(toCompact(m)) completes without error and has
\* as many items as m, in the same order; each of its views has empty rectangles and
\* textBoxes lists and each connector has style SOLID, lineType SINGLE, showArrow true.
C10_LossyReverse ==
  pc = "toFull.toCompact" =>
    /\ output # Throws
    /\ Len(output.items) = Len(input.items)
    /\ \A k \in 1..Len(input.items) :
         /\ output.items[k].name = Slice(input.items[k].name, 30)
         /\ output.items[k].icon = input.items[k].icon
    /\ \A v \in 1..Len(output.views) :
         /\ output.views[v].rectangles = << >>
         /\ output.views[v].textBoxes = << >>
         /\ \A c \in 1..Len(output.views[v].connectors) :
              /\ output.views[v].connectors[c].style = "SOLID"
              /\ output.views[v].connectors[c].lineType = "SINGLE"
              /\ output.views[v].connectors[c].showArrow = TRUE

\* a Model of two items whose view holds a dashed connector, a rectangle and a text
\* box went through toCompact and toFull
C10_Witness ==
  /\ pc = "toFull.toCompact"
  /\ Len(input.items) = 2
  /\ input.items[1].id # input.items[2].id
  /\ \E v \in 1..Len(input.views) :
       /\ input.views[v].rectangles # << >>
       /\ input.views[v].textBoxes # << >>
       /\ \E c \in 1..Len(input.views[v].connectors) :
            input.views[v].connectors[c].style = "DASHED"
  /\ \E v \in 1..Len(output.views) : output.views[v].connectors # << >>

FirstChars(s, n) == [k \in 1..(IF Len(s) < n THEN Len(s) ELSE n) |-> s[k]]

\* C13: for every full Model m, toCompact(m) passes validateCompact: its title is the
\* first 40 characters of m.title, every item is a triple of strings with the first 30
\* characters of the name and the first 100 of the description, every view is a
\* [positions, connections] pair, and the metadata is {f:'compact', v:'1.0'}.
C13_ToCompactIsValid ==
  pc = "toCompact" =>
    /\ validateCompact(output).valid
    /\ output.t = FirstChars(input.title, 40)
    /\ Len(output.i) = Len(input.items)
    /\ \A n \in 1..Len(input.items) :
         /\ Len(output.i[n]) = 3
         /\ output.i[n][1] = FirstChars(input.items[n].name, 30)
         /\ output.i[n][3] =
              (IF IsDef(input.items[n].description)
               THEN FirstChars(Get(input.items[n].description), 100) ELSE << >>)
    /\ \A k \in 1..Len(output.v) : Len(output.v[k]) = 2
    /\ output["_"] = [f |-> "compact", v |-> "1.0"]

\* toCompact has converted a Model whose title, an item's name and its description
\* are longer than the compact limits
C13_Witness ==
  /\ pc = "toCompact"
  /\ Len(input.title) > 40
  /\ \E n \in 1..Len(input.items) :
       /\ Len(input.items[n].name) > 30
       /\ IsDef(input.items[n].description)
       /\ Len(Get(input.items[n].description)) > 100
       /\ Len(output.i[n][1]) = 30

\* C14: detectFormat answers "compact" for an object whose _.f is "compact" or that has
\* t, i and v with i and v arrays; "full" when neither compact test holds and the
\* object has title, items and views; "unknown" for everything else, null, undefined,
\* a number, a string, {} and {foo:1} included; the compact tests come first.
C14_DetectFormat ==
  pc = "detectFormat" =>
    LET has(k) == IsObject(input) /\ HasKey(input, k)
        byMeta == /\ has("_") /\ IsObject(input["_"])
                  /\ HasKey(input["_"], "f") /\ input["_"].f = "compact"
        byShape == /\ has("t") /\ has("i") /\ has("v")
                   /\ IsArray(input.i) /\ IsArray(input.v)
        full == has("title") /\ has("items") /\ has("views")
    IN  /\ (byMeta \/ byShape) => output = "compact"
        /\ (~byMeta /\ ~byShape /\ full) => output = "full"
        /\ (~byMeta /\ ~byShape /\ ~full) => output = "unknown"
        /\ DOMAIN input \in {{"typeof"}, {}, {"foo"}} => output = "unknown"

\* a payload with the compact metadata and the three full fields is detected as compact
C14_Witness ==
  /\ pc = "detectFormat"
  /\ HasKey(input, "title") /\ HasKey(input, "items") /\ HasKey(input, "views")
  /\ output = "compact"

\* C15: validate(p) answers valid = false, format "unknown" and the one fixed message
\* when detectFormat(p) is "unknown"; otherwise the detected format with the valid flag
\* and the errors of validateCompact(p) or of validateFull(p); valid is true exactly
\* when there is no error.
C15_Validate ==
  pc = "validate" =>
    LET format == detectFormat(input)
        fixed == <<"Unable to detect diagram format. Must be either compact or full format.">>
    IN  /\ output.format = format
        /\ output.valid <=> Len(output.errors) = 0
        /\ format = "unknown" =>
             /\ ~output.valid
             /\ Len(output.errors) = 1
             /\ Len(output.errors[1]) = 1 /\ output.errors[1][1] = fixed[1]
        /\ format = "compact" =>
             /\ output.valid = validateCompact(input).valid
             /\ output.errors = validateCompact(input).errors
        /\ format = "full" =>
             /\ output.valid = validateFull(input).valid
             /\ output.errors = validateFull(input).errors

\* {} was validated: unknown, invalid, one message
C15_Witness ==
  /\ pc = "validate"
  /\ DOMAIN input = {}
  /\ output.format = "unknown" /\ ~output.valid /\ Len(output.errors) = 1

\* C16: getInfo reports the title, nodeCount = the number of ModelItems, connectorCount,
\* rectangleCount and textBoxCount = the sizes of the primary view's lists, viewCount =
\* the number of views, whatever operations built the instance; for an empty diagram
\* titled T this is title T, the four counts 0 and viewCount 1.
C16_GetInfo ==
  /\ last.op = "getInfo" =>
       LET m == Held(last.k)
       IN  /\ output.title = m.title
           /\ output.nodeCount = Len(m.items)
           /\ output.connectorCount = Len(m.views[1].connectors)
           /\ output.rectangleCount = Len(m.views[1].rectangles)
           /\ output.textBoxCount = Len(m.views[1].textBoxes)
           /\ output.viewCount = Len(m.views)
  /\ \A T \in {TitleT} :
       (last.op = "getInfo" /\ Held(last.k) = createEmptyDiagram(Some(T))) =>
         /\ output.title = T
         /\ output.nodeCount = 0 /\ output.connectorCount = 0
         /\ output.rectangleCount = 0 /\ output.textBoxCount = 0
         /\ output.viewCount = 1

\* getInfo of a loaded diagram of two views after an addRectangle on its primary view
C16_Witness ==
  /\ last.op = "getInfo"
  /\ output.nodeCount = 2 /\ output.viewCount = 2
  /\ output.connectorCount = 1 /\ output.rectangleCount = 1 /\ output.textBoxCount = 0

\* the identifiers of the views, in order
ViewIds(m) == [k \in 1..Len(m.views) |-> m.views[k].id]

\* C17: every DiagramState has at least one view.  Construction with no payload, with
\* a full payload of no view or with a compact payload of no view yields exactly one
\* default view, and no operation removes a view or changes which view is first.
C17_AtLeastOneView ==
  /\ \A k \in 1..Len(snaps) : Len(Held(k).views) >= 1
  /\ \A m0 \in {createEmptyDiagram(None), loadDiagram(FullNoViews), loadDiagram(CompactNoViews)} :
       Held(1) = m0 => m0.views = <<createDefaultView(Uuid("viewid", 0))>>
  /\ \A k \in 1..Len(snaps) :
       LET m == Held(k)
           u == SnapUuids(heap)
           same(m2) == ViewIds(m2) = ViewIds(m)
       IN  /\ \A p \in AddNodeInputs(m) : same(addNode(m, p, u))
           /\ \A p \in UpdateNodeInputs(m) : same(updateNode(m, p, u))
           /\ \A p \in RemoveNodeInputs(m) : same(removeNode(m, p.nodeId, p.viewId, u))
           /\ \A p \in AddConnectorInputs(m) : same(addConnector(m, p, u))
           /\ \A p \in UpdateConnectorInputs(m) : same(updateConnector(m, p, u))
           /\ \A p \in RemoveConnectorInputs(m) :
                same(removeConnector(m, p.connectorId, p.viewId, u))
           /\ \A p \in AddRectangleInputs(m) : same(addRectangle(m, p, u))
           /\ \A p \in RemoveRectangleInputs(m) :
                same(removeRectangle(m, p.rectangleId, p.viewId, u))
           /\ \A p \in AddTextBoxInputs(m) : same(addTextBox(m, p, u))
           /\ \A p \in RemoveTextBoxInputs(m) : same(removeTextBox(m, p.textBoxId, p.viewId, u))
           /\ same(setTitle(m, TitleT, u))
           /\ same(setDescription(m, DescD, u))

\* an instance built from the full payload of no view, and one more operation on it
C17_Witness ==
  /\ Len(snaps) >= 2
  /\ Held(1) = loadDiagram(FullNoViews)
  /\ Len(Held(1).views) = 1
  /\ last.op \in {"addNode", "addRectangle", "addTextBox"}
  /\ ViewIds(Held(2)) = ViewIds(Held(1))

\* the viewId is given and no view carries it
NoSuchView(m, viewId) ==
  /\ IsDef(viewId) /\ Get(viewId) # << >>
  /\ \A v \in 1..Len(m.views) : m.views[v].id # Get(viewId)

\* the objects of the view a call addresses: the view of the viewId, the primary view
\* when none is given
Addressed(m, viewId, list) ==
  LET given == IsDef(viewId) /\ Get(viewId) # << >>
      views == {v \in 1..Len(m.views) :
                  IF given THEN m.views[v].id = Get(viewId) ELSE v = 1}
  IN  UNION {{m.views[v][list][k].id : k \in 1..Len(m.views[v][list])} : v \in views}

\* C18: updateConnector, removeConnector, removeRectangle and removeTextBox, called with
\* an id that matches nothing in the target view or with a viewId that matches no view,
\* return a state whose model equals the receiver's, and raise no error.
C18_UnknownIdNoOp ==
  \A k \in 1..Len(snaps) :
    LET m == Held(k)
        u == SnapUuids(heap)
        unknown(id, viewId, list) ==
          NoSuchView(m, viewId) \/ id \notin Addressed(m, viewId, list)
    IN  /\ \A p \in UpdateConnectorInputs(m) :
             unknown(p.connectorId, p.viewId, "connectors") => updateConnector(m, p, u) = m
        /\ \A p \in RemoveConnectorInputs(m) :
             unknown(p.connectorId, p.viewId, "connectors") =>
               removeConnector(m, p.connectorId, p.viewId, u) = m
        /\ \A p \in RemoveRectangleInputs(m) :
             unknown(p.rectangleId, p.viewId, "rectangles") =>
               removeRectangle(m, p.rectangleId, p.viewId, u) = m
        /\ \A p \in RemoveTextBoxInputs(m) :
             unknown(p.textBoxId, p.viewId, "textBoxes") =>
               removeTextBox(m, p.textBoxId, p.viewId, u) = m

\* removeRectangle was called on a diagram of no rectangle, and a connector of a second
\* view is unknown to the primary view
C18_Witness ==
  /\ Len(snaps) = 2
  /\ last.op = "removeRectangle"
  /\ Held(2) = Held(1)
  /\ Len(Held(1).views) = 2
  /\ \E p \in RemoveConnectorInputs(Held(1)) :
       /\ p.connectorId # UnknownId
       /\ p.connectorId \notin Addressed(Held(1), p.viewId, "connectors")

\* the identifiers of one kind the loaded diagram holds, in any view; the identifiers
\* the parameter-less Model-layer operation acts on
HeldIds(m, kind) ==
  CASE kind = "node" -> {m.items[k].id : k \in 1..Len(m.items)}
    [] kind = "connector" -> ConnectorIds(m) \ {UnknownId}
    [] kind = "rectangle" -> RectangleIds(m) \ {UnknownId}
    [] kind = "textBox" -> TextBoxIds(m) \ {UnknownId}

\* the Model the Model-layer operation of the tool returns for the call last.p
ToolOperation(m) ==
  LET p == last.p
      u == FreshUuids(m)
  IN  CASE pc = "update_node" -> updateNode(m, p @@ [viewId |-> None], u)
        [] pc = "remove_node" -> removeNode(m, p.nodeId, None, u)
        [] pc = "update_connector" -> updateConnector(m, p @@ [viewId |-> None], u)
        [] pc = "remove_connector" -> removeConnector(m, p.connectorId, None, u)
        [] pc = "remove_rectangle" -> removeRectangle(m, p.rectangleId, None, u)
        [] pc = "remove_textbox" -> removeTextBox(m, p.textBoxId, None, u)

StrictTools == {"update_node", "remove_node", "update_connector", "remove_connector",
                "remove_rectangle", "remove_textbox"}

ToolKind ==
  CASE pc \in {"update_node", "remove_node"} -> "node"
    [] pc \in {"update_connector", "remove_connector"} -> "connector"
    [] pc = "remove_rectangle" -> "rectangle"
    [] pc = "remove_textbox" -> "textBox"

ToolId ==
  CASE ToolKind = "node" -> last.p.nodeId
    [] ToolKind = "connector" -> last.p.connectorId
    [] ToolKind = "rectangle" -> last.p.rectangleId
    [] ToolKind = "textBox" -> last.p.textBoxId

\* C19: update_node, remove_node, update_connector, remove_connector, remove_rectangle
\* and remove_textbox answer success = false with an error and no diagram whenever the
\* id is not found in the loaded diagram, and success = true with the updated diagram
\* only when it is found: never for a call the Model layer treats as a no-op on an
\* unknown id.
C19_ToolsAreStrict ==
  (origin = "tools" /\ pc \in StrictTools) =>
    LET loaded == Loaded(input)
        found == IsDef(loaded) /\ ToolId \in HeldIds(Get(loaded), ToolKind)
        addressed == IF ToolKind = "node" THEN found
                     ELSE IsDef(loaded) /\ ~NoSuchView(Get(loaded), None)
                          /\ ToolId \in Addressed(Get(loaded), None,
                                                   CASE ToolKind = "connector" -> "connectors"
                                                     [] ToolKind = "rectangle" -> "rectangles"
                                                     [] ToolKind = "textBox" -> "textBoxes")
    IN  /\ ~found => ~output.success /\ IsDef(output.error) /\ ~IsDef(output.diagram)
        /\ output.success =>
             /\ found /\ addressed
             /\ ~IsDef(output.error)
             /\ output.diagram =
                  Some(convertToFormat(ToolOperation(Get(loaded)),
                                       OrElseStr(last.p.outputFormat, detectFormat(input))))

\* remove_connector was called with an id the loaded diagram does not hold, which the
\* Model layer takes as a no-op, and answered with an error
C19_Witness ==
  /\ origin = "tools" /\ pc = "remove_connector"
  /\ IsDef(Loaded(input))
  /\ Len(Get(Loaded(input)).views[1].connectors) > 0
  /\ last.p.connectorId = UnknownId
  /\ removeConnector(Get(Loaded(input)), UnknownId, None, FreshUuids(Get(Loaded(input))))
       = Get(Loaded(input))
  /\ ~output.success /\ IsDef(output.error) /\ ~IsDef(output.diagram)

\* C20: in every Model obtained by normalizing a payload that passes validate and
\* applying Model-layer operations, each view holds at most one ViewItem per ModelItem
\* identifier.
C20_OneViewItemPerItem ==
  (\A d \in LoadPayloads : validate(d).valid) =>
    \A v \in 1..Len(model.views) :
      \A j, k \in 1..Len(model.views[v].items) :
        model.views[v].items[j].id = model.views[v].items[k].id => j = k

\* the identifiers of the ModelItems, in order
ItemOrder(m) == [k \in 1..Len(m.items) |-> m.items[k].id]

\* t is s without one of its elements, the others in their order
WithoutOne(s, t) == \E k \in 1..Len(s) : t = Splice(s, k)

\* C21: edits keep the item order stable.  addNode puts the new item after all the
\* existing ones, removeNode deletes one item and leaves the others in their order,
\* updateNode, the connector operations and the annotation operations reorder nothing,
\* and toCompact gives the items their indices in that order.
C21_ItemOrderStable ==
  LET m == model
      u == FreshUuids(model)
      same(m2) == ItemOrder(m2) = ItemOrder(m)
      compact == toCompact(m)
  IN  /\ \A p \in AddNodeInputs(m) :
           LET m2 == addNode(m, p, u)
           IN  /\ Len(m2.items) = Len(m.items) + 1
               /\ SubSeq(m2.items, 1, Len(m.items)) = m.items
               /\ m2.items[Len(m2.items)].id = Uuid("node", u.node)
      /\ \A p \in RemoveNodeInputs(m) :
           LET m2 == removeNode(m, p.nodeId, p.viewId, u)
           IN  IF HasItem(m, p.nodeId) THEN WithoutOne(m.items, m2.items)
               ELSE m2.items = m.items
      /\ \A p \in UpdateNodeInputs(m) : same(updateNode(m, p, u))
      /\ \A p \in AddConnectorInputs(m) : same(addConnector(m, p, u))
      /\ \A p \in UpdateConnectorInputs(m) : same(updateConnector(m, p, u))
      /\ \A p \in RemoveConnectorInputs(m) :
           same(removeConnector(m, p.connectorId, p.viewId, u))
      /\ \A p \in AddRectangleInputs(m) : same(addRectangle(m, p, u))
      /\ \A p \in RemoveRectangleInputs(m) :
           same(removeRectangle(m, p.rectangleId, p.viewId, u))
      /\ \A p \in AddTextBoxInputs(m) : same(addTextBox(m, p, u))
      /\ \A p \in RemoveTextBoxInputs(m) : same(removeTextBox(m, p.textBoxId, p.viewId, u))
      /\ Len(compact.i) = Len(m.items)
      /\ \A n \in 1..Len(m.items) : compact.i[n][1] = FirstChars(m.items[n].name, NAME_MAX)

\* a node was removed from a diagram of three items added one after the other: the two
\* that remain are in the order in which they were added
C21_Witness ==
  /\ origin = "empty"
  /\ last.op = "removeNode"
  /\ Len(model.items) = 2
  /\ model.items[1].id[2] < model.items[2].id[2]

\* C22: two callers, each holding its own instance, interleave their operations in any
\* order and obtain, each, the results they would obtain alone: an operation on one
\* instance changes neither the Model of the other nor the result of a later operation
\* on it (the same uuidv4() values given), also when both come from one ancestor.
C22_CallersDoNotInterfere ==
  \A a, b \in 1..Len(snaps) :
    (a # b /\ pc = "idle") =>
      LET m == Held(a)
          u == SnapUuids(heap)
          alone == held[b]
          after(m2) ==
            LET r == produce(heap, snaps[a], m2)
                other == Deref(r.heap, snaps[b])
                u2 == SnapUuids(r.heap)
            IN  /\ other = alone
                /\ \A q \in AddNodeCalls(alone) : addNode(other, q, u2) = addNode(alone, q, u2)
                /\ \A q \in RemoveNodeCalls(alone) :
                     removeNode(other, q.nodeId, q.viewId, u2)
                       = removeNode(alone, q.nodeId, q.viewId, u2)
                /\ \A q \in AddConnectorCalls(alone) :
                     addConnector(other, q, u2) = addConnector(alone, q, u2)
                /\ getInfo(other) = getInfo(alone)
      IN  /\ \A p \in AddNodeCalls(m) : after(addNode(m, p, u))
          /\ \A p \in UpdateNodeCalls(m) : after(updateNode(m, p, u))
          /\ \A p \in RemoveNodeCalls(m) : after(removeNode(m, p.nodeId, p.viewId, u))
          /\ \A p \in AddConnectorCalls(m) : after(addConnector(m, p, u))
          /\ \A p \in UpdateConnectorCalls(m) : after(updateConnector(m, p, u))
          /\ \A p \in RemoveConnectorCalls(m) :
               after(removeConnector(m, p.connectorId, p.viewId, u))
          /\ \A p \in AddRectangleInputs(m) : after(addRectangle(m, p, u))
          /\ \A p \in RemoveRectangleInputs(m) :
               after(removeRectangle(m, p.rectangleId, p.viewId, u))
          /\ \A p \in AddTextBoxInputs(m) : after(addTextBox(m, p, u))
          /\ \A p \in RemoveTextBoxInputs(m) : after(removeTextBox(m, p.textBoxId, p.viewId, u))
          /\ after(setTitle(m, TitleT, u))
          /\ after(setDescription(m, DescD, u))

\* two instances derived from one ancestor, one by addRectangle and one by addTextBox:
\* each shares the ancestor's items array and neither holds the other's annotation
C22_Witness ==
  /\ Len(snaps) = 3
  /\ heap[snaps[2]].items = heap[snaps[1]].items
  /\ heap[snaps[3]].items = heap[snaps[1]].items
  /\ Len(held[1].views[1].rectangles) = 0 /\ Len(held[1].views[1].textBoxes) = 0
  /\ Len(held[2].views[1].rectangles) = 1 /\ Len(held[2].views[1].textBoxes) = 0
  /\ Len(held[3].views[1].rectangles) = 0 /\ Len(held[3].views[1].textBoxes) = 1

\* C27: toCompact never attributes a placement to a different item: every position
\* [p, x, y] it emits for a view comes from a ViewItem of that view, at that tile, whose
\* id is the id of items[p]; a ViewItem whose id is in no ModelItem produces no
\* position.
C27_NoMisattribution ==
  (origin = "converter" /\ pc = "toCompact") =>
    \A k \in 1..Len(input.views) :
      LET positions == output.v[k][1]
          view == input.views[k]
      IN  \A j \in 1..Len(positions) :
            LET pos == positions[j]
            IN  /\ pos[1] + 1 \in 1..Len(input.items)
                /\ \E n \in 1..Len(view.items) :
                     /\ view.items[n].id = input.items[pos[1] + 1].id
                     /\ view.items[n].tile = [x |-> pos[2], y |-> pos[3]]

\* C30: starting from the empty diagram, whatever viewId arguments the operations are
\* given, every ViewItem of every view has a ModelItem of the same identifier.
C30_NoDanglingPlacement ==
  origin = "empty" =>
    \A v \in 1..Len(model.views) :
      \A j \in 1..Len(model.views[v].items) :
        HasItem(model, model.views[v].items[j].id)

\* C28: whenever the add_connector tool returns success = true, the returned diagram has
\* exactly one more connector in its primary view than the input diagram, joining
\* fromNodeId to toNodeId, and the returned connectorId is the identifier of that new
\* connector (where the returned format carries identifiers); the tool never reports
\* success when the Model layer added nothing.
C28_AddConnectorSuccess ==
  (origin = "tools" /\ pc = "add_connector" /\ output.success) =>
    LET m == Get(Loaded(input))
        p == last.p
        d == Get(output.diagram)
        added == addConnector(m, p @@ [viewId |-> None], FreshUuids(m))
    IN  /\ added # m
        /\ IF OrElseStr(p.outputFormat, detectFormat(input)) = "full"
           THEN LET connectors == d.views[1].connectors
                    new == connectors[Len(connectors)]
                IN  /\ Len(connectors) = Len(m.views[1].connectors) + 1
                    /\ new.anchors[1].ref.item = p.fromNodeId
                    /\ new.anchors[Len(new.anchors)].ref.item = p.toNodeId
                    /\ output.connectorId = Some(new.id)
           ELSE LET connections == d.v[1][2]
                IN  /\ Len(connections) = Len(toCompact(m).v[1][2]) + 1
                    /\ connections[Len(connections)] =
                         <<Get(itemIndexMap(m, p.fromNodeId)), Get(itemIndexMap(m, p.toNodeId))>>

\* C23: batchOperations on a diagram of known format returns one result per requested
\* operation, in request order, with successCount + errorCount equal to the number of
\* operations and success true exactly when errorCount is 0; an operation whose name is
\* not supported yields a failed result and is counted as an error.
C23_BatchCounts ==
  (origin = "batch" /\ pc \in {"returned", "thrown"}
     /\ detectFormat(input.diagram) # "unknown") =>
    /\ pc = "returned"
    /\ Len(output.results) = Len(last.operations)
    /\ \A k \in 1..Len(last.operations) :
         /\ output.results[k].op = last.operations[k].op
         /\ ~Includes(SUPPORTED_OPERATIONS, last.operations[k].op) =>
              ~output.results[k].success /\ IsDef(output.results[k].error)
    /\ output.successCount + output.errorCount = Len(last.operations)
    /\ output.errorCount = Cardinality({k \in 1..Len(output.results) : ~output.results[k].success})
    /\ output.success <=> output.errorCount = 0

\* the working diagram after the operations: each applied to the diagram of the most
\* recent operation that succeeded
RECURSIVE Working(_, _)
Working(diagram, operations) ==
  IF operations = << >> THEN diagram
  ELSE LET before == Working(diagram, SubSeq(operations, 1, Len(operations) - 1))
           operation == operations[Len(operations)]
           opResult == applyOperation(operation.op, before, operation.params)
       IN  IF Includes(SUPPORTED_OPERATIONS, operation.op) /\ opResult.success
           THEN Get(opResult.diagram)
           ELSE before

\* the k-th operation succeeds on the diagram the operations before it left
Succeeds(diagram, operations, k) ==
  /\ Includes(SUPPORTED_OPERATIONS, operations[k].op)
  /\ applyOperation(operations[k].op, Working(diagram, SubSeq(operations, 1, k - 1)),
                    operations[k].params).success

\* C24: batchOperations applies the operations in request order, each to the diagram
\* produced by the most recent successful operation (the input diagram if none); a
\* failed operation leaves the working diagram unchanged and does not stop the later
\* operations, and the diagram returned is the result of exactly the successful
\* operations, with no rollback when some operation fails.
C24_BatchInOrder ==
  (origin = "batch" /\ detectFormat(input.diagram) # "unknown") =>
    /\ pc = "loop" =>
         /\ output.currentDiagram = Working(input.diagram, last.operations)
         /\ Len(output.results) = Len(last.operations)
         /\ \A k \in 1..Len(last.operations) :
              output.results[k].success = Succeeds(input.diagram, last.operations, k)
    /\ pc = "returned" =>
         /\ output.diagram =
              Some(convertToFormat(loadDiagram(Working(input.diagram, last.operations)),
                                   OrElseStr(input.outputFormat, detectFormat(input.diagram))))
         /\ \A k \in 1..Len(last.operations) :
              output.results[k].success = Succeeds(input.diagram, last.operations, k)

\* an operation succeeded, the next failed, a third succeeded, and the diagram returned
\* holds the node of the first and the rectangle of the third
C24_Witness ==
  /\ origin = "batch" /\ pc = "returned"
  /\ input.diagram = createEmptyDiagram(None) /\ input.outputFormat = None
  /\ Len(last.operations) = 3
  /\ last.operations[1].op = "add_node"
  /\ last.operations[2].op = "remove_node"
  /\ last.operations[3].op = "add_rectangle"
  /\ output.results[1].success /\ ~output.results[2].success /\ output.results[3].success
  /\ ~output.success
  /\ Len(Get(output.diagram).items) = 1
  /\ Len(Get(output.diagram).views[1].rectangles) = 1

\* C29: within one batchOperations call, the nodeId reported by a successful add_node
\* identifies that node in the diagram handed to the later operations of the batch,
\* whatever the format of the input diagram: the diagram the next operation loads holds
\* a ModelItem of that id, which is the node added.
C29_NodeIdUsable ==
  (origin = "batch" /\ pc = "loop" /\ Len(last.operations) > 0) =>
    LET n == Len(last.operations)
        result == output.results[n]
        handed == Get(Loaded(output.currentDiagram))
    IN  (result.op = "add_node" /\ result.success) =>
          /\ IsDef(result.nodeId)
          /\ HasItem(handed, Get(result.nodeId))
          /\ handed.items[Len(handed.items)].id = Get(result.nodeId)

\* the view items of the rendered view that renderAscii draws a box for
DrawnNodes(m) ==
  {k \in 1..Len(m.views[1].items) : HasItem(m, m.views[1].items[k].id)}

\* the cells of the box of the k-th view item with the glyph the box has there
BoxCells(m, k) ==
  LET viewItem == m.views[1].items[k]
      item == m.items[FindIndex(m.items, viewItem.id)]
      at == toCharCoords(m.views[1], viewItem.tile)
      writes == nodeBoxWrites(at.cx, at.cy, Slice(item.name, ASCII_NAME_MAX),
                              Slice(OrElse(item.icon, << >>), ASCII_ICON_MAX))
  IN  {writes[j] : j \in 1..Len(writes)}

\* C25: in the final grid of renderAscii every cell of every placed node's box (its
\* border and its name row) holds that node's own glyph: no connector glyph (line,
\* corner or arrow) is inside a node box and no character of a node's name, cut to 12
\* characters, is lost.
C25_NodeBoxesIntact ==
  (origin = "ascii" /\ pc = "rendered" /\ ~output.empty) =>
    \A k \in DrawnNodes(output.model) :
      \A w \in BoxCells(output.model, k) :
        Cell(output.grid, w[1], w[2]) = w[3]

\* the connectors of the rendered view with both ends placed and showArrow not false
ArrowConnectors(m) ==
  {k \in 1..Len(m.views[1].connectors) :
     LET c == m.views[1].connectors[k]
     IN  /\ Len(c.anchors) >= 2
         /\ c.showArrow # FALSE
         /\ findItem(m.views[1], c.anchors[1].ref.item) # 0
         /\ findItem(m.views[1], c.anchors[Len(c.anchors)].ref.item) # 0}

\* the tiles of the two ends of the k-th connector
EndTiles(m, k) ==
  LET view == m.views[1]
      c == view.connectors[k]
  IN  [from |-> view.items[findItem(view, c.anchors[1].ref.item)].tile,
       to |-> view.items[findItem(view, c.anchors[Len(c.anchors)].ref.item)].tile]

\* the arrow the k-th connector is to have: by the sign of dx, else of dy, in the cell
\* next to the centre of its target on the side the line comes from
ExpectedArrow(m, k) ==
  LET ends == EndTiles(m, k)
      target == toCharCoords(m.views[1], ends.to)
  IN  IF ends.to.x > ends.from.x THEN <<target.cy, target.cx - 2, ArrowRight>>
      ELSE IF ends.to.x < ends.from.x THEN <<target.cy, target.cx + 2, ArrowLeft>>
      ELSE IF ends.to.y > ends.from.y THEN <<target.cy - 1, target.cx, ArrowDown>>
      ELSE <<target.cy + 1, target.cx, ArrowUp>>

\* the arrow glyphs of the grid with their cells
ArrowCells(grid) ==
  {<<c[1], c[2], grid.cells[c]>> : c \in {d \in DOMAIN grid.cells : grid.cells[d] \in Arrows}}

\* C26 as stated: every connector whose two ends are placed in the primary view and
\* whose showArrow is not false has its arrow glyph next to its target end, and the
\* grid holds no other arrow glyph.
C26_ArrowPerConnector ==
  (origin = "ascii" /\ pc = "rendered" /\ ~output.empty) =>
    ArrowCells(output.grid) =
      {ExpectedArrow(output.model, k) : k \in ArrowConnectors(output.model)}

\* C26: every connector whose two ends are placed on different tiles of the primary
\* view and whose showArrow is not false has one arrow glyph next to its target end,
\* right or left by the sign of dx when dx is not 0, otherwise down or up by the sign
\* of dy; a connector with showArrow false, and a connector from a tile to the same
\* tile, contributes no arrow glyph.
C26_ArrowBetweenTiles ==
  (origin = "ascii" /\ pc = "rendered" /\ ~output.empty) =>
    ArrowCells(output.grid) =
      {ExpectedArrow(output.model, k) :
         k \in {j \in ArrowConnectors(output.model) :
                  EndTiles(output.model, j).from # EndTiles(output.model, j).to}}

\* a node connected to itself with showArrow true and a connector leading left were
\* rendered: the grid holds the one arrow of the second
C26_Witness ==
  /\ origin = "ascii" /\ pc = "rendered" /\ ~output.empty
  /\ Len(output.model.views[1].connectors) = 2
  /\ ArrowConnectors(output.model) = {1, 2}
  /\ EndTiles(output.model, 1).from = EndTiles(output.model, 1).to
  /\ EndTiles(output.model, 2).to.x < EndTiles(output.model, 2).from.x
  /\ ArrowCells(output.grid) = {ExpectedArrow(output.model, 2)}
  /\ ExpectedArrow(output.model, 2)[3] = ArrowLeft

====
